---------------------------- MODULE Spec2Model ----------------------------
(***************************************************************************)
(* A model of the Hermes code-navigation engine (ArtemKunik/hermes):       *)
(* the incremental ingestion pipeline, the knowledge store, the tiered     *)
(* search engine with its result cache, and the temporal fact store.       *)
(*                                                                         *)
(* Text is modelled as sequences of one-character strings, so that         *)
(* lower-casing, trimming, prefix/suffix tests and LIKE patterns are       *)
(* computed and not assumed.  Optional values (Rust Option, SQL NULL) are  *)
(* sequences of length at most one: None == <<>>, Some(x) == <<x>>.        *)
(* Scores are f64 in the code; here they are integers in thousandths.      *)
(***************************************************************************)
EXTENDS Integers, Sequences, FiniteSets, TLC

VARIABLES
    fs,            \* the project directory: path -> file state
    nodes,         \* table nodes
    edges,         \* table edges
    fts_content,   \* virtual table fts_content
    file_hashes,   \* table file_hashes: set of rows, file_path is the key
    uuid_next,     \* source of fresh Uuid::new_v4() values
    last_run,      \* observation: outcome of the latest ingest_directory call
    quiet_runs,    \* observation: Ok runs completed since the last change of fs
    dd_results,    \* deduplicate_and_rank: the candidates passed in
    dd_top_k,      \* deduplicate_and_rank: top_k
    dd_ranked,     \* deduplicate_and_rank: None, or Some(the list returned)
    search_cache,  \* HermesEngine::search_cache: key -> [response, inserted_at]
    fetch_cache,   \* SearchEngine::fetch_cache: (file_path, start, end) -> content
    now,           \* the monotonic clock (Instant::now), in seconds
    pc,            \* per thread: Idle, or the search waiting to insert its response
    last_call,     \* observation: what the latest search, fetch or index call did
    calls,         \* the number of search and fetch calls made
    temporal_facts, \* rows of table temporal_facts
    foreign_keys,  \* whether the SQLite build enforces REFERENCES clauses
    accounting,    \* rows of table accounting, in id order
    conn,          \* the Mutex<Connection>: "free", or the thread that holds it
    runs           \* per server thread: Idle, or its ingest_directory call in progress

ingest_vars == <<fs, nodes, edges, fts_content, file_hashes, uuid_next,
                 last_run, quiet_runs>>

dedup_vars == <<dd_results, dd_top_k, dd_ranked>>

search_vars == <<search_cache, fetch_cache, now, pc, last_call, calls>>

\* The tables outside the knowledge graph, and the build option.
fact_vars == <<temporal_facts, foreign_keys, accounting>>

\* The connection mutex and the ingest calls of the server's threads.
server_vars == <<conn, runs>>

vars == <<ingest_vars, dedup_vars, search_vars, fact_vars, server_vars>>

----------------------------------------------------------------------------
(* Bounds of the model *)

MaxUuid == 6          \* ids handed out in one behaviour
MaxCands == 3         \* candidates passed to deduplicate_and_rank
MaxTopK == 2          \* largest top_k
MaxTicks == 2         \* clock ticks in one behaviour
TickSecs == 30        \* seconds per clock tick
MaxSearches == 2      \* searches in one behaviour of SpecSearch
MaxCalls == 4         \* searches and fetches in one behaviour of SpecCache
MaxFacts == 2         \* facts added in one behaviour
MaxRecords == 2       \* record_query calls in one behaviour
I64_MAX == 3          \* i64::MAX, scaled; u64::MAX is 2 * I64_MAX + 1

----------------------------------------------------------------------------
(* Generic helpers *)

None == <<>>
Some(x) == <<x>>
IsSome(o) == Len(o) = 1
Unwrap(o) == o[1]

Range(s) == { s[i] : i \in 1..Len(s) }

SubSeqFrom(s, i) == SubSeq(s, i, Len(s))


----------------------------------------------------------------------------
(* The filesystem.  A file is absent, unreadable as text (bytes that are   *)
(* not valid UTF-8, or a file the process may not read: read_to_string     *)
(* returns Err for both), or text: a sequence of lines.  A line is a       *)
(* markdown heading ("# name" / "## name") or another line of text.        *)

Heading(name) == [h |-> TRUE, text |-> name]
Text(t)       == [h |-> FALSE, text |-> t]

Absent     == [kind |-> "absent", lines |-> <<>>]
Unreadable == [kind |-> "unreadable", lines |-> <<>>]
TextFile(lines) == [kind |-> "text", lines |-> lines]

PathA == <<"/", "a", ".", "m", "d">>
PathB == <<"/", "b", ".", "t", "o", "m", "l">>
PathC == <<"/", "c", ".", "x">>

\* All paths of the modelled directory, in sorted order.
AllPaths == <<PathA, PathB, PathC>>

NameAb == <<"a", "b">>
NameCd == <<"c", "d">>

\* The contents each file of the modelled directory can have.
Contents(path) ==
    IF path = PathA
    THEN { TextFile(<<Heading(NameAb), Text(<<"x">>)>>),
           TextFile(<<Text(<<"y">>), Heading(NameAb), Text(<<"x">>)>>),
           TextFile(<<Heading(NameAb), Text(<<"x">>), Heading(NameCd)>>),
           Unreadable }
    ELSE IF path = PathB
    THEN { TextFile(<<Text(<<"x">>)>>), Unreadable }
    ELSE { TextFile(<<Text(<<"x">>)>>) }

\* std::fs::read_to_string: Ok(text) or Err.
ReadOk(fsys, path) == fsys[path].kind = "text"
ReadLines(fsys, path) == fsys[path].lines

----------------------------------------------------------------------------
(* Hashing.  SHA-256 is modelled as an injective tagging of the content.   *)

compute_hash(content) == <<"sha256", content>>

----------------------------------------------------------------------------
(* Crawler *)

SUPPORTED_EXTENSIONS ==
    { <<"r","s">>, <<"t","s","x">>, <<"t","s">>, <<"j","s","x">>, <<"j","s">>,
      <<"m","d">>, <<"t","o","m","l">>, <<"j","s","o","n">>, <<"c","s","s">> }

\* Path::file_name: the text after the last separator.
FileName(path) ==
    LET seps == { i \in 1..Len(path) : path[i] = "/" }
    IN  IF seps = {} THEN path
        ELSE SubSeqFrom(path, (CHOOSE i \in seps : \A j \in seps : j <= i) + 1)

\* Path::extension: the text after the last dot of the file name.
Extension(path) ==
    LET name == FileName(path)
        dots == { i \in 1..Len(name) : name[i] = "." }
    IN  IF dots = {} \/ dots = {1} THEN None
        ELSE LET last == CHOOSE i \in dots : \A j \in dots : j <= i
             IN  Some(SubSeqFrom(name, last + 1))

is_supported_file(path) ==
    LET ext == Extension(path)
    IN  IsSome(ext) /\ Unwrap(ext) \in SUPPORTED_EXTENSIONS

\* crawl_directory: the supported files present under the root, sorted.
crawl_directory(fsys) ==
    LET present(i) == fsys[AllPaths[i]].kind # "absent" /\ is_supported_file(AllPaths[i])
        F[i \in 0..Len(AllPaths)] ==
            IF i = 0 THEN <<>>
            ELSE IF present(i) THEN Append(F[i-1], AllPaths[i]) ELSE F[i-1]
    IN  F[Len(AllPaths)]

----------------------------------------------------------------------------
(* Chunker.  The modelled directory holds markdown files and files of an   *)
(* extension the chunker has no splitter for; the ".rs" and TypeScript     *)
(* splitters are not exercised by it.                                      *)

\* chunk_whole_file: one chunk, the whole file, node type File.
chunk_whole_file(path, lines) ==
    << [ name       |-> FileName(path),
         node_type  |-> "File",
         content    |-> lines,
         start_line |-> 1,
         end_line   |-> Len(lines),
         summary    |-> <<"F","i","l","e",":"," ">> \o FileName(path) ] >>

\* chunk_markdown: one chunk per heading, reaching to the line before the
\* next heading or to the end of the file; lines before the first heading
\* belong to no chunk.
chunk_markdown(lines) ==
    LET heads == { i \in 1..Len(lines) : lines[i].h }
        next(i) == IF \E j \in heads : j > i
                   THEN (CHOOSE j \in heads : j > i /\ \A k \in heads : k > i => j <= k) - 1
                   ELSE Len(lines)
        mk(i) == [ name       |-> lines[i].text,
                   node_type  |-> "Document",
                   content    |-> SubSeq(lines, i, next(i)),
                   start_line |-> i,
                   end_line   |-> next(i),
                   summary    |-> lines[i].text ]
        F[i \in 0..Len(lines)] ==
            IF i = 0 THEN <<>>
            ELSE IF i \in heads THEN Append(F[i-1], mk(i)) ELSE F[i-1]
    IN  F[Len(lines)]

chunk_file(path, lines) ==
    IF Extension(path) = Some(<<"m","d">>) THEN chunk_markdown(lines)
    ELSE chunk_whole_file(path, lines)

----------------------------------------------------------------------------
(* The store.  db is the database seen as one value:                       *)
(*   nodes  : rows of table nodes (id is the primary key)                  *)
(*   edges  : rows of table edges (id primary key, UNIQUE(source_id,       *)
(*            target_id, edge_type))                                       *)
(*   fts    : rows of fts_content                                          *)
(*   hashes : rows of file_hashes (file_path ALONE is the primary key)     *)
(*   uuid   : the next value Uuid::new_v4() returns                        *)

DbOf(n, e, f, h, u) == [nodes |-> n, edges |-> e, fts |-> f, hashes |-> h, uuid |-> u]

\* NodeBuilder::new(project_id) ... build()
Node(id, project_id, name, node_type, file_path, start_line, end_line, summary, content_hash) ==
    [ id |-> id, project_id |-> project_id, name |-> name, node_type |-> node_type,
      file_path |-> file_path, start_line |-> start_line, end_line |-> end_line,
      summary |-> summary, content_hash |-> content_hash ]

\* EdgeBuilder::new(project_id, source_id, target_id, edge_type) ... build()
Edge(id, project_id, source_id, target_id, edge_type, weight) ==
    [ id |-> id, project_id |-> project_id, source_id |-> source_id,
      target_id |-> target_id, edge_type |-> edge_type, weight |-> weight ]

\* NodeType and EdgeType: the variants, and the text a row holds for each.
NodeType ==
    {"File", "Module", "Function", "Struct", "Impl", "Trait", "Enum", "Concept", "Document"}

EdgeType == {"Calls", "Imports", "Implements", "DependsOn", "Contains", "Documents"}

NodeType_as_str(t) ==
    CASE t = "File" -> "file"         [] t = "Module" -> "module"
      [] t = "Function" -> "function" [] t = "Struct" -> "struct"
      [] t = "Impl" -> "impl"         [] t = "Trait" -> "trait"
      [] t = "Enum" -> "enum"         [] t = "Concept" -> "concept"
      [] t = "Document" -> "document"

\* A faulty parse_str that reads every text as the fallback variant.
NodeType_parse_fallback(s) == "Concept"

NodeType_parse_str(s) ==
    IF \E t \in NodeType : NodeType_as_str(t) = s
    THEN CHOOSE t \in NodeType : NodeType_as_str(t) = s
    ELSE "Concept"

EdgeType_as_str(t) ==
    CASE t = "Calls" -> "calls"           [] t = "Imports" -> "imports"
      [] t = "Implements" -> "implements" [] t = "DependsOn" -> "depends_on"
      [] t = "Contains" -> "contains"     [] t = "Documents" -> "documents"

EdgeType_parse_str(s) ==
    IF \E t \in EdgeType : EdgeType_as_str(t) = s
    THEN CHOOSE t \in EdgeType : EdgeType_as_str(t) = s
    ELSE "DependsOn"

\* node_from_row, and the same closure of get_node and get_neighbors.
node_from_row(row) ==
    Node(row.id, row.project_id, row.name, NodeType_parse_str(row.node_type), row.file_path,
         row.start_line, row.end_line, row.summary, row.content_hash)

\* The closure of get_neighbors that reads an edge from a row.
edge_from_row(row) ==
    Edge(row.id, row.project_id, row.source_id, row.target_id,
         EdgeType_parse_str(row.edge_type), row.weight)

\* A faulty add_node that keeps the stored row on a conflict (INSERT OR IGNORE).
add_node_ignore(db, node) ==
    IF \E n \in db.nodes : n.id = node.id THEN db
    ELSE LET row == Node(node.id, node.project_id, node.name, NodeType_as_str(node.node_type),
                  node.file_path, node.start_line, node.end_line, node.summary, node.content_hash)
         IN  [db EXCEPT !.nodes = @ \cup {row}]

\* KnowledgeGraph::add_node: INSERT OR REPLACE on the primary key id; the
\* row holds the node's fields, the type as its text.
add_node(db, node) ==
    LET row == Node(node.id, node.project_id, node.name, NodeType_as_str(node.node_type),
             node.file_path, node.start_line, node.end_line, node.summary, node.content_hash)
    IN  [db EXCEPT !.nodes = { n \in @ : n.id # node.id } \cup {row}]

\* KnowledgeGraph::get_node: the row with this id in the caller's project.
get_node(db, project_id, node_id) ==
    LET hit == { n \in db.nodes : n.id = node_id /\ n.project_id = project_id }
    IN  IF hit = {} THEN None ELSE Some(node_from_row(CHOOSE n \in hit : TRUE))

\* KnowledgeGraph::add_edge: INSERT OR IGNORE; a row that conflicts on the
\* primary key or on the unique triple is dropped.
add_edge(db, edge) ==
    IF \E e \in db.edges :
          \/ e.id = edge.id
          \/ /\ e.source_id = edge.source_id
             /\ e.target_id = edge.target_id
             /\ e.edge_type = EdgeType_as_str(edge.edge_type)
    THEN db
    ELSE LET row == Edge(edge.id, edge.project_id, edge.source_id, edge.target_id,
                         EdgeType_as_str(edge.edge_type), edge.weight)
         IN  [db EXCEPT !.edges = @ \cup {row}]

\* KnowledgeGraph::index_fts: delete the node's row(s), insert the new one.
index_fts(db, node, content) ==
    [db EXCEPT !.fts = { r \in @ : r.node_id # node.id } \cup
        { [ node_id |-> node.id, project_id |-> node.project_id, name |-> node.name,
            content |-> content, file_path |-> node.file_path ] }]

\* KnowledgeGraph::get_all_file_paths: paths of the project's file-typed nodes.
get_all_file_paths(db, project_id) ==
    { Unwrap(n.file_path) : n \in { m \in db.nodes :
          m.project_id = project_id /\ m.node_type = "file" /\ IsSome(m.file_path) } }

\* The ids selected by the sub-queries of delete_nodes_for_file.
NodeIdsOfFile(db, project_id, path) ==
    { n.id : n \in { m \in db.nodes :
          m.file_path = Some(path) /\ m.project_id = project_id } }

\* A faulty delete_nodes_for_file whose statements forget the file_path
\* condition.
delete_nodes_any_path(db, project_id, path) ==
    LET ids == { n.id : n \in { m \in db.nodes : m.project_id = project_id } }
    IN  [db EXCEPT
           !.fts   = { r \in @ : r.node_id \notin ids },
           !.edges = { e \in @ : e.source_id \notin ids /\ e.target_id \notin ids },
           !.nodes = { n \in @ : n.project_id # project_id }]

\* A faulty delete_nodes_for_file that forgets the DELETE FROM edges.
delete_nodes_keep_edges(db, project_id, path) ==
    LET ids == NodeIdsOfFile(db, project_id, path)
    IN  [db EXCEPT
           !.fts   = { r \in @ : r.node_id \notin ids },
           !.nodes = { n \in @ : ~(n.file_path = Some(path) /\ n.project_id = project_id) }]

\* KnowledgeGraph::delete_nodes_for_file: FTS rows, incident edges, nodes.
delete_nodes_for_file(db, project_id, path) ==
    LET ids == NodeIdsOfFile(db, project_id, path)
    IN  [db EXCEPT
           !.fts   = { r \in @ : r.node_id \notin ids },
           !.edges = { e \in @ : e.source_id \notin ids /\ e.target_id \notin ids },
           !.nodes = { n \in @ : ~(n.file_path = Some(path) /\ n.project_id = project_id) }]

----------------------------------------------------------------------------
(* Hash tracker.  A file key is the path; a chunk key is path::chunk-name. *)

chunk_key(path, name) == path \o <<":", ":">> \o name

\* The row SELECTed by file_path = key AND project_id = project_id.
StoredHash(db, project_id, key) ==
    LET hit == { r \in db.hashes : r.file_path = key /\ r.project_id = project_id }
    IN  IF hit = {} THEN None ELSE Some((CHOOSE r \in hit : TRUE).content_hash)

\* INSERT OR REPLACE INTO file_hashes: the row with this file_path, of
\* whatever project, is replaced.
PutHash(db, project_id, key, hash) ==
    [db EXCEPT !.hashes = { r \in @ : r.file_path # key } \cup
        { [file_path |-> key, project_id |-> project_id, content_hash |-> hash] }]

\* HashTracker::is_unchanged: "err" | "unchanged" | "changed".  No row gives
\* Ok(false) before the file is read; with a row, a failed read is an Err.
is_unchanged(db, project_id, fsys, path) ==
    LET stored == StoredHash(db, project_id, path)
    IN  IF ~IsSome(stored) THEN "changed"
        ELSE IF ~ReadOk(fsys, path) THEN "err"
        ELSE IF Unwrap(stored) = compute_hash(ReadLines(fsys, path)) THEN "unchanged"
        ELSE "changed"

\* A faulty update_hash that stores the hash of the path, not of the content.
update_hash_of_path(db, project_id, fsys, path) ==
    PutHash(db, project_id, path, compute_hash(path))

\* HashTracker::update_hash, after a successful read.
update_hash(db, project_id, fsys, path) ==
    PutHash(db, project_id, path, compute_hash(ReadLines(fsys, path)))

is_chunk_unchanged(db, project_id, key, current_hash) ==
    StoredHash(db, project_id, key) = Some(current_hash)

update_chunk_hash(db, project_id, key, hash) == PutHash(db, project_id, key, hash)

----------------------------------------------------------------------------
(* Ingestion pipeline *)

\* The loop over the chunks in ingest_file: a chunk whose hash is stored
\* under its key is skipped; any other gets a node, an FTS row, a contains
\* edge from the file node, and its hash stored.
RECURSIVE IngestChunks(_, _, _, _, _, _, _)
IngestChunks(db, project_id, path, file_node, chunks, i, created) ==
    IF i > Len(chunks) THEN [db |-> db, created |-> created]
    ELSE
      LET chunk == chunks[i]
          key   == chunk_key(path, chunk.name)
          hash  == compute_hash(chunk.content)
      IN  IF is_chunk_unchanged(db, project_id, key, hash)
          THEN IngestChunks(db, project_id, path, file_node, chunks, i + 1, created)
          ELSE
            LET chunk_node == Node(db.uuid, project_id, chunk.name, chunk.node_type,
                                   Some(path), Some(chunk.start_line),
                                   Some(chunk.end_line), Some(chunk.summary), None)
                edge == Edge(db.uuid + 1, project_id, file_node.id, chunk_node.id,
                             "Contains", 1)
                db1 == add_node([db EXCEPT !.uuid = @ + 2], chunk_node)
                db2 == index_fts(db1, chunk_node, chunk.content)
                db3 == add_edge(db2, edge)
                db4 == update_chunk_hash(db3, project_id, key, hash)
            IN  IngestChunks(db4, project_id, path, file_node, chunks, i + 1, created + 1)

\* IngestionPipeline::ingest_file: [ok, db, created].
ingest_file(db, project_id, fsys, path) ==
    IF ~ReadOk(fsys, path) THEN [ok |-> FALSE, db |-> db, created |-> 0]
    ELSE
      LET content   == ReadLines(fsys, path)
          chunks    == chunk_file(path, content)
          file_node == Node(db.uuid, project_id, path, "File", Some(path),
                            Some(1), Some(Len(content)), None,
                            Some(compute_hash(content)))
          db1 == add_node([db EXCEPT !.uuid = @ + 1], file_node)
          db2 == index_fts(db1, file_node, content)
          r   == IngestChunks(db2, project_id, path, file_node, chunks, 1, 1)
      IN  [ok |-> TRUE, db |-> r.db, created |-> r.created]

\* IngestionPipeline::cleanup_stale_nodes
RECURSIVE DeleteAll(_, _, _)
DeleteAll(db, project_id, stale) ==
    IF stale = {} THEN db
    ELSE LET p == CHOOSE q \in stale : TRUE
         IN  DeleteAll(delete_nodes_for_file(db, project_id, p), project_id, stale \ {p})

cleanup_stale_nodes(db, project_id, crawled_paths) ==
    DeleteAll(db, project_id, get_all_file_paths(db, project_id) \ crawled_paths)

\* The map over to_ingest: ingest_file on every path; the results in order.
RECURSIVE IngestAll(_, _, _, _, _, _)
IngestAll(db, project_id, fsys, to_ingest, i, results) ==
    IF i > Len(to_ingest) THEN [db |-> db, results |-> results]
    ELSE LET r == ingest_file(db, project_id, fsys, to_ingest[i])
         IN  IngestAll(r.db, project_id, fsys, to_ingest, i + 1,
                       Append(results, [path |-> to_ingest[i], ok |-> r.ok,
                                        count |-> r.created]))

\* A faulty serial pass that logs a failed file without counting it.
RECURSIVE aggregate_errors_uncounted(_, _, _, _, _, _)
aggregate_errors_uncounted(db, project_id, fsys, results, i, report) ==
    IF i > Len(results) THEN [ok |-> TRUE, db |-> db, report |-> report]
    ELSE
      LET r == results[i]
      IN  IF r.ok
          THEN IF ~ReadOk(fsys, r.path)
               THEN [ok |-> FALSE, db |-> db, report |-> report]
               ELSE aggregate_errors_uncounted(
                        update_hash(db, project_id, fsys, r.path), project_id, fsys,
                        results, i + 1,
                        [report EXCEPT !.indexed = @ + 1,
                                       !.nodes_created = @ + r.count])
          ELSE aggregate_errors_uncounted(db, project_id, fsys, results, i + 1, report)

\* The serial pass over the results: counts, and update_hash for every Ok.
RECURSIVE Aggregate(_, _, _, _, _, _)
Aggregate(db, project_id, fsys, results, i, report) ==
    IF i > Len(results) THEN [ok |-> TRUE, db |-> db, report |-> report]
    ELSE
      LET r == results[i]
      IN  IF r.ok
          THEN IF ~ReadOk(fsys, r.path)
               THEN [ok |-> FALSE, db |-> db, report |-> report]
               ELSE Aggregate(update_hash(db, project_id, fsys, r.path), project_id, fsys,
                              results, i + 1,
                              [report EXCEPT !.indexed = @ + 1,
                                             !.nodes_created = @ + r.count])
          ELSE Aggregate(db, project_id, fsys, results, i + 1,
                         [report EXCEPT !.errors = @ + 1])

EmptyReport == [total_files |-> 0, indexed |-> 0, skipped |-> 0, errors |-> 0,
                nodes_created |-> 0]

\* The serial pass applied to the results of the map (ingest_results).
AggregateAll(m, project_id, fsys, report0) ==
    CHOOSE x \in { [ok |-> a.ok, db |-> a.db, report |-> a.report, results |-> m.results] :
                     a \in {Aggregate(m.db, project_id, fsys, m.results, 1, report0)} } : TRUE

\* The end of ingest_directory: an Err of update_hash ends the call before
\* the sweep; otherwise the stale-node sweep runs and the report is returned.
FinishRun(a, project_id, crawled) ==
    IF ~a.ok
    THEN [ok |-> FALSE, db |-> a.db, report |-> a.report, crawled |-> crawled,
          results |-> a.results]
    ELSE [ok |-> TRUE, db |-> cleanup_stale_nodes(a.db, project_id, crawled),
          report |-> a.report, crawled |-> crawled, results |-> a.results]

\* IngestionPipeline::ingest_directory after the crawl returned files:
\* [ok, db, report, crawled, results], results being ingest_results, the outcome of ingest_file for every file
\* it was called on.  An Err of is_unchanged or of update_hash ends the call
\* at once (the ? operator); what was written until then stays.
ingest_files(db, project_id, fsys, files) ==
    LET crawled == Range(files)
        check(i) == is_unchanged(db, project_id, fsys, files[i])
        idx     == 1..Len(files)
        Filter[i \in 0..Len(files)] ==
            IF i = 0 THEN <<>>
            ELSE IF check(i) = "changed" THEN Append(Filter[i-1], files[i])
                 ELSE Filter[i-1]
        report0 == [EmptyReport EXCEPT
                      !.total_files = Len(files),
                      !.skipped = Cardinality({ i \in idx : check(i) = "unchanged" })]
    IN  IF \E i \in idx : check(i) = "err"
        THEN [ok |-> FALSE, db |-> db, report |-> report0, crawled |-> crawled,
              results |-> <<>>]
        ELSE FinishRun(
                AggregateAll(IngestAll(db, project_id, fsys, Filter[Len(files)], 1, <<>>),
                             project_id, fsys, report0),
                project_id, crawled)

\* ingest_directory over a root that holds files only: crawl_directory
\* cannot fail there.
ingest_directory(db, project_id, fsys) ==
    ingest_files(db, project_id, fsys, crawl_directory(fsys))

----------------------------------------------------------------------------
(* The ingestion system: one project, its directory and its store.         *)

ProjectId == "proj"

\* The parts of the model a specification does not use stay as they start.
IdleDedup == dd_results = <<>> /\ dd_top_k = 0 /\ dd_ranked = None

Threads == {"t1", "t2"}
Idle == [at |-> "idle"]
NoCall == [kind |-> "none"]

IdleSearch ==
    /\ search_cache = <<>> /\ fetch_cache = <<>> /\ now = 0
    /\ pc = [t \in Threads |-> Idle] /\ last_call = NoCall /\ calls = 0

IdleFacts == temporal_facts = {} /\ foreign_keys = FALSE /\ accounting = <<>>

ServerThreads == {"main", "auto"}

IdleServer == conn = "free" /\ runs = [t \in ServerThreads |-> Idle]

Db == DbOf(nodes, edges, fts_content, file_hashes, uuid_next)

NoRun == [ran |-> FALSE, ok |-> FALSE, report |-> EmptyReport, crawled |-> {},
          nodes_before |-> {}, results |-> <<>>]

InitIngest ==
    /\ fs = [p \in Range(AllPaths) |-> Absent]
    /\ nodes = {}
    /\ edges = {}
    /\ fts_content = {}
    /\ file_hashes = {}
    /\ uuid_next = 1
    /\ last_run = NoRun
    /\ quiet_runs = 0
    /\ IdleDedup
    /\ IdleSearch /\ IdleServer
    /\ IdleFacts

\* The environment creates or rewrites a file.
WriteFile(path, content) ==
    /\ fs[path] # content
    /\ fs' = [fs EXCEPT ![path] = content]
    /\ quiet_runs' = 0
    /\ UNCHANGED <<nodes, edges, fts_content, file_hashes, uuid_next, last_run>>

\* The environment deletes a file.
RemoveFile(path) ==
    /\ fs[path] # Absent
    /\ fs' = [fs EXCEPT ![path] = Absent]
    /\ quiet_runs' = 0
    /\ UNCHANGED <<nodes, edges, fts_content, file_hashes, uuid_next, last_run>>

\* A call of ingest_directory(root) on the project's store.
IngestDirectory ==
    \E r \in {ingest_directory(Db, ProjectId, fs)} :
        /\ r.db.uuid <= MaxUuid + 1
        /\ nodes' = r.db.nodes
        /\ edges' = r.db.edges
        /\ fts_content' = r.db.fts
        /\ file_hashes' = r.db.hashes
        /\ uuid_next' = r.db.uuid
        /\ last_run' = [ran |-> TRUE, ok |-> r.ok, report |-> r.report,
                        crawled |-> r.crawled, nodes_before |-> nodes,
                        results |-> r.results]
        /\ quiet_runs' = IF r.ok THEN (IF quiet_runs < 2 THEN quiet_runs + 1 ELSE 2) ELSE 0
        /\ UNCHANGED fs

NextIngest ==
    /\ \/ \E p \in Range(AllPaths) : \E c \in Contents(p) : WriteFile(p, c)
       \/ \E p \in Range(AllPaths) : RemoveFile(p)
       \/ IngestDirectory
    /\ UNCHANGED <<dedup_vars, server_vars, search_vars, fact_vars>>

SpecIngest == InitIngest /\ [][NextIngest]_vars

----------------------------------------------------------------------------
(* Claims about ingestion, checked under SpecIngest.                       *)
(* quiet_runs = 2 says: the latest call of ingest_directory returned Ok,   *)
(* the call before it returned Ok too, and the directory has not changed   *)
(* since before that earlier call.                                         *)

UnreadableCrawled == { p \in last_run.crawled : ~ReadOk(fs, p) }

\* C1 as stated: on a second run over an unchanged directory the report has
\* indexed = 0 and skipped = total_files, and the node set is unchanged.
C1_SecondRunSkipsAll ==
    quiet_runs = 2 =>
        /\ last_run.report.indexed = 0
        /\ last_run.report.skipped = last_run.report.total_files
        /\ nodes = last_run.nodes_before

\* C1 (amended): on a second run over an unchanged directory the report has
\* indexed = 0 and skipped = total_files - errors, errors being the number
\* of crawled files that cannot be read, and the node set is unchanged.
C1_SecondRunIndexesNothing ==
    quiet_runs = 2 =>
        /\ last_run.report.indexed = 0
        /\ last_run.report.errors = Cardinality(UnreadableCrawled)
        /\ last_run.report.skipped = last_run.report.total_files - last_run.report.errors
        /\ nodes = last_run.nodes_before

\* C1 witness: a second run over an unchanged directory that skipped an
\* indexed file and failed again on an unreadable one.
C1_Witness ==
    /\ quiet_runs = 2
    /\ last_run.report.skipped >= 1
    /\ last_run.report.errors >= 1
    /\ nodes # {}

\* The nodes the store held for path p when the latest run began.
OwnedBefore(p) ==
    { n \in last_run.nodes_before : n.file_path = Some(p) /\ n.project_id = ProjectId }

\* C2: after ingest_directory returns Ok, for every path that was not in
\* its crawl (a deleted file): no node of the project has that path,
\* get_all_file_paths() does not contain it, no edge has a node that the
\* path owned before the run as source or target, and get_node of such a
\* node's id finds nothing.
C2_StaleCleanup ==
    (last_run.ran /\ last_run.ok) =>
        \A p \in Range(AllPaths) \ last_run.crawled :
            /\ \A n \in nodes : ~(n.project_id = ProjectId /\ n.file_path = Some(p))
            /\ p \notin get_all_file_paths(Db, ProjectId)
            /\ \A n \in OwnedBefore(p) :
                  /\ get_node(Db, ProjectId, n.id) = None
                  /\ \A e \in edges : e.source_id # n.id /\ e.target_id # n.id

\* C2 witness: a run returned Ok after a file that owned a file node and a
\* chunk node was deleted, while another indexed file stayed.
C2_Witness ==
    /\ last_run.ran /\ last_run.ok
    /\ fs[PathA] = Absent
    /\ PathA \notin last_run.crawled
    /\ \E n, m \in OwnedBefore(PathA) : n.node_type = "file" /\ m.node_type = "document"
    /\ \E n \in nodes : n.file_path = Some(PathB)

----------------------------------------------------------------------------
(* Search results and their merge.  A score is the f64 score times 1000.   *)

Tiers == {"L0Literal", "L1Fts", "L2Vector"}

SearchResult(node, score, tier) == [node |-> node, score |-> score, tier |-> tier]

\* A faulty bonus table that gives the literal tier +0.5.
tier_bonus_wide(tier) ==
    IF tier = "L0Literal" THEN 500 ELSE IF tier = "L1Fts" THEN 100 ELSE 0

\* The tier bonus of deduplicate_and_rank: +0.3, +0.1, +0.0.
tier_bonus(tier) ==
    IF tier = "L0Literal" THEN 300 ELSE IF tier = "L1Fts" THEN 100 ELSE 0

Boosted(r) == r.score + tier_bonus(r.tier)

\* A faulty merge step that compares raw scores, without the bonus.
MergeOneRaw(best, result) ==
    LET id == result.node.id
    IN  IF id \in DOMAIN best
        THEN IF result.score > best[id].score
             THEN [best EXCEPT ![id] = result]
             ELSE best
        ELSE [k \in DOMAIN best \cup {id} |-> IF k = id THEN result ELSE best[k]]

\* One step of the loop of deduplicate_and_rank: best.entry(id)
\* .and_modify(replace when the boosted score is strictly higher)
\* .or_insert(result).
MergeOne(best, result) ==
    LET id == result.node.id
    IN  IF id \in DOMAIN best
        THEN IF Boosted(result) > Boosted(best[id])
             THEN [best EXCEPT ![id] = result]
             ELSE best
        ELSE [k \in DOMAIN best \cup {id} |-> IF k = id THEN result ELSE best[k]]

\* The HashMap best after the loop over the results, in their order.
BestOf(results) ==
    LET F[i \in 0..Len(results)] ==
            IF i = 0 THEN [k \in {} |-> 0] ELSE MergeOne(F[i-1], results[i])
    IN  F[Len(results)]

\* The orders a stable sort by descending score can give to the values of
\* a HashMap, whose iteration order is arbitrary.
RankedOrders(best) ==
    LET ids == DOMAIN best
        n   == Cardinality(ids)
    IN  { [i \in 1..n |-> best[o[i]]] :
            o \in { f \in [1..n -> ids] :
                      /\ \A i, j \in 1..n : i # j => f[i] # f[j]
                      /\ \A i, j \in 1..n : i < j => best[f[i]].score >= best[f[j]].score } }

\* A faulty truncate that cuts nothing.
TruncateNothing(s, k) == s

\* Vec::truncate
Truncate(s, k) == IF Len(s) > k THEN SubSeq(s, 1, k) ELSE s

\* SearchEngine::deduplicate_and_rank: the set of lists it can return.
deduplicate_and_rank(results, top_k) ==
    { Truncate(s, top_k) : s \in RankedOrders(BestOf(results)) }

----------------------------------------------------------------------------
(* deduplicate_and_rank as a function of its arguments: SpecDedup draws    *)
(* the candidate list and top_k, and the one action applies the function.  *)

CandScores == {500, 700, 900}
CandIds == {1, 2}

\* A candidate for node id, as the tiers build them (search/mod.rs test).
CandNode(id) == Node(id, ProjectId, <<"n">>, "Function", None, None, None, None, None)

Cands == { SearchResult(CandNode(id), sc, t) : id \in CandIds, sc \in CandScores, t \in Tiers }

IdleIngest ==
    /\ fs = [p \in Range(AllPaths) |-> Absent]
    /\ nodes = {} /\ edges = {} /\ fts_content = {} /\ file_hashes = {}
    /\ uuid_next = 1 /\ last_run = NoRun /\ quiet_runs = 0

InitDedup ==
    /\ dd_results \in UNION { [1..n -> Cands] : n \in 0..MaxCands }
    /\ dd_top_k \in 0..MaxTopK
    /\ dd_ranked = None
    /\ IdleIngest
    /\ IdleSearch /\ IdleServer
    /\ IdleFacts

DedupAndRank ==
    /\ dd_ranked = None
    /\ \E out \in deduplicate_and_rank(dd_results, dd_top_k) : dd_ranked' = Some(out)
    /\ UNCHANGED <<dd_results, dd_top_k, ingest_vars, search_vars, fact_vars, server_vars>>

NextDedup == DedupAndRank

SpecDedup == InitDedup /\ [][NextDedup]_vars

----------------------------------------------------------------------------
(* Claims about deduplicate_and_rank (SpecDedup).                          *)

CandIdsOf(results) == { results[i].node.id : i \in 1..Len(results) }

CandsOfNode(results, id) ==
    { results[i] : i \in { j \in 1..Len(results) : results[j].node.id = id } }

EntriesOfNode(ranked, id) == { i \in 1..Len(ranked) : ranked[i].node.id = id }

Min2(a, b) == IF a < b THEN a ELSE b

\* The entry at position i of the list returned is one of the candidates
\* passed in for its node, with that candidate's raw score and tier, and no
\* candidate of the node has a higher score plus tier bonus.
IsWinner(results, e) ==
    /\ e \in CandsOfNode(results, e.node.id)
    /\ \A c \in CandsOfNode(results, e.node.id) :
          e.score + tier_bonus(e.tier) >= c.score + tier_bonus(c.tier)

\* C4 as stated: whatever the candidates and top_k, the list returned has
\* exactly one entry for every node id among the candidates, and that entry
\* is a candidate with the highest score plus tier bonus, reported with its
\* raw score.
C4_ExactlyOnePerNode ==
    IsSome(dd_ranked) =>
        \A id \in CandIdsOf(dd_results) :
            /\ Cardinality(EntriesOfNode(Unwrap(dd_ranked), id)) = 1
            /\ \A i \in EntriesOfNode(Unwrap(dd_ranked), id) :
                  IsWinner(dd_results, Unwrap(dd_ranked)[i])

\* C4, amended: the list returned has at most one entry per node id and
\* min(top_k, number of distinct node ids) entries in all, so exactly one per
\* node id when top_k does not cut the list; every entry is a candidate of
\* its node whose score plus tier bonus (L0 +0.3, L1 +0.1, L2 +0) is maximal
\* among that node's candidates, reported with that candidate's raw score.
C4_MergeWinner ==
    IsSome(dd_ranked) =>
        /\ \A id \in CandIdsOf(dd_results) :
              Cardinality(EntriesOfNode(Unwrap(dd_ranked), id)) <= 1
        /\ Len(Unwrap(dd_ranked))
              = Min2(dd_top_k, Cardinality(CandIdsOf(dd_results)))
        /\ \A i \in 1..Len(Unwrap(dd_ranked)) :
              IsWinner(dd_results, Unwrap(dd_ranked)[i])

\* A merge where the bonus decides: node 1 has an L0 candidate of raw 0.7
\* and an L2 candidate of raw 0.9, the list is not cut, and the L0
\* candidate is the entry returned with its raw score 0.7.
C4_Witness ==
    /\ IsSome(dd_ranked)
    /\ dd_top_k >= Cardinality(CandIdsOf(dd_results))
    /\ CandsOfNode(dd_results, 1) = { SearchResult(CandNode(1), 700, "L0Literal"),
                                      SearchResult(CandNode(1), 900, "L2Vector") }
    /\ \E i \in 1..Len(Unwrap(dd_ranked)) :
          Unwrap(dd_ranked)[i] = SearchResult(CandNode(1), 700, "L0Literal")

\* The case of C5: the candidates of node 1 are exactly one from L0 with
\* raw score 0.5 and one from L1 with raw score 0.9, and the list is not cut.
C5_Case ==
    /\ IsSome(dd_ranked)
    /\ dd_top_k >= Cardinality(CandIdsOf(dd_results))
    /\ Cardinality(EntriesOfNode(dd_results, 1)) = 2
    /\ CandsOfNode(dd_results, 1) = { SearchResult(CandNode(1), 500, "L0Literal"),
                                      SearchResult(CandNode(1), 900, "L1Fts") }

\* C5 as stated: with an L0 candidate of raw 0.5 and an L1 candidate of raw
\* 0.9 for one node, the entry kept is the L0 candidate and its reported
\* score is 0.5.
C5_L0Kept ==
    C5_Case =>
        /\ EntriesOfNode(Unwrap(dd_ranked), 1) # {}
        /\ \A i \in EntriesOfNode(Unwrap(dd_ranked), 1) :
              /\ Unwrap(dd_ranked)[i].tier = "L0Literal"
              /\ Unwrap(dd_ranked)[i].score = 500

\* C5, amended: with an L0 candidate of raw 0.5 and an L1 candidate of raw
\* 0.9 for one node, 0.5 + 0.3 < 0.9 + 0.1, so the entry kept is the L1
\* candidate and its reported score is 0.9, in either order of the two.
C5_L1Kept ==
    C5_Case =>
        /\ EntriesOfNode(Unwrap(dd_ranked), 1) # {}
        /\ \A i \in EntriesOfNode(Unwrap(dd_ranked), 1) :
              /\ Unwrap(dd_ranked)[i].tier = "L1Fts"
              /\ Unwrap(dd_ranked)[i].score = 900

\* The L0 candidate comes first in the list passed in, and is replaced.
C5_Witness ==
    /\ C5_Case
    /\ dd_results[1].node.id = 1
    /\ dd_results[1].tier = "L0Literal"
    /\ Unwrap(dd_ranked)[1].tier = "L1Fts"

----------------------------------------------------------------------------
(* Strings of the search side.  A string is a sequence of one-character    *)
(* strings; every modelled character is one byte, so len() is Len.         *)

\* char::to_lowercase / SQLite LOWER on the modelled alphabet.
LowerChar(c) ==
    CASE c = "A" -> "a" [] c = "B" -> "b" [] c = "D" -> "d" [] c = "N" -> "n"
      [] OTHER -> c

to_lowercase(s) == [i \in 1..Len(s) |-> LowerChar(s[i])]

IsWhite(c) == c = " "

\* char::is_alphanumeric
IsAlnum(c) == c \notin {" ", "/", ".", "_", "%", "#"}

\* str::trim: drop leading and trailing whitespace.
trim(s) ==
    LET keep == { i \in 1..Len(s) : ~IsWhite(s[i]) }
    IN  IF keep = {} THEN <<>>
        ELSE SubSeq(s, CHOOSE i \in keep : \A j \in keep : i <= j,
                       CHOOSE i \in keep : \A j \in keep : j <= i)

\* The maximal runs of the characters at the positions in keep, in order:
\* str::split on the other characters with the empty pieces dropped.
Pieces(s, keep) ==
    LET F[i \in 0..Len(s)] ==
            IF i = 0 THEN <<>>
            ELSE IF i \notin keep THEN F[i-1]
            ELSE IF (i - 1) \in keep
                 THEN [F[i-1] EXCEPT ![Len(F[i-1])] = Append(@, s[i])]
                 ELSE Append(F[i-1], <<s[i]>>)
    IN  F[Len(s)]

NotWhite(c) == ~IsWhite(c)

split_whitespace(s) == Pieces(s, { i \in 1..Len(s) : NotWhite(s[i]) })

starts_with(s, p) == Len(p) <= Len(s) /\ SubSeq(s, 1, Len(p)) = p
ends_with(s, p) == Len(p) <= Len(s) /\ SubSeq(s, Len(s) - Len(p) + 1, Len(s)) = p

\* SQLite's LIKE: % matches any run of characters, _ any one character,
\* any other character itself, ignoring ASCII case.
RECURSIVE LikeFrom(_, _, _, _)
LikeFrom(p, i, t, j) ==
    IF i > Len(p) THEN j > Len(t)
    ELSE IF p[i] = "%" THEN \E k \in j..(Len(t) + 1) : LikeFrom(p, i + 1, t, k)
    ELSE /\ j <= Len(t)
         /\ (p[i] = "_" \/ LowerChar(p[i]) = LowerChar(t[j]))
         /\ LikeFrom(p, i + 1, t, j + 1)

Like(text, pattern) == LikeFrom(pattern, 1, text, 1)

----------------------------------------------------------------------------
(* L0: literal search on node names *)

\* KnowledgeGraph::literal_search_by_name: the rows whose lowered name is
\* LIKE 'q%'; when there is none, the rows whose lowered name is LIKE '%q%'.
literal_search_by_name(db, project_id, query) ==
    LET q == to_lowercase(query)
        rows(pat) == { node_from_row(n) : n \in { m \in db.nodes :
                         m.project_id = project_id /\ Like(to_lowercase(m.name), pat) } }
    IN  IF rows(q \o <<"%">>) # {} THEN rows(q \o <<"%">>)
        ELSE rows(<<"%">> \o q \o <<"%">>)

\* compute_literal_score, in thousandths.
compute_literal_score(query, name) ==
    IF name = query THEN 1000
    ELSE IF starts_with(name, query) \/ ends_with(name, query) THEN 900
    ELSE 500 + (Len(query) * 400) \div (IF Len(name) > 1 THEN Len(name) ELSE 1)

\* The lists a result set can come back as once sorted by descending score
\* (a stable sort of rows that arrive in no fixed order) and cut to limit.
SortedLists(results, limit) ==
    { Truncate(s, limit) :
        s \in RankedOrders([id \in { r.node.id : r \in results } |->
                               CHOOSE r \in results : r.node.id = id]) }

L0_LIMIT == 20

\* literal::literal_search: the set of lists it can return.
literal_search(db, project_id, query) ==
    SortedLists({ SearchResult(n, compute_literal_score(to_lowercase(query),
                                                        to_lowercase(n.name)), "L0Literal") :
                    n \in literal_search_by_name(db, project_id, query) }, L0_LIMIT)

----------------------------------------------------------------------------
(* L1: full-text search.  The unicode61 tokenizer splits a text at every   *)
(* character that is not alphanumeric and folds case; the porter stemmer   *)
(* leaves tokens shorter than three characters, all the modelled ones, as  *)
(* they are.  bm25 is not computed: the rank of a matching row is any      *)
(* value of FtsRanks.                                                      *)

FtsTokens(text) == Pieces(to_lowercase(text), { i \in 1..Len(text) : IsAlnum(text[i]) })

\* The tokens of a content column: those of its lines, in order.
ContentTokens(lines) ==
    LET F[i \in 0..Len(lines)] ==
            IF i = 0 THEN <<>> ELSE F[i-1] \o FtsTokens(lines[i].text)
    IN  F[Len(lines)]

\* The token sequences of the text columns of an fts_content row.  The
\* columns node_id and project_id hold no modelled query word.
RowColumns(row) ==
    { FtsTokens(row.name), ContentTokens(row.content) } \cup
    (IF IsSome(row.file_path) THEN { FtsTokens(Unwrap(row.file_path)) } ELSE {})

\* A phrase matches a column that holds its tokens side by side; with
\* prefix set, the last token of the phrase may be a prefix of the column's.
PhraseIn(col, toks, prefix) ==
    /\ toks # <<>>
    /\ \E k \in 0..(Len(col) - Len(toks)) :
          \A i \in 1..Len(toks) :
              IF prefix /\ i = Len(toks) THEN starts_with(col[k + i], toks[i])
              ELSE col[k + i] = toks[i]

RowHasPhrase(row, toks, prefix) == \E col \in RowColumns(row) : PhraseIn(col, toks, prefix)

\* normalize_bm25_score, rank and score in thousandths.
normalize_bm25_score(rank) ==
    LET abs_rank == IF rank < 0 THEN 0 - rank ELSE rank
        s == 1000 - (1000000 \div (1000 + abs_rank))
    IN  IF abs_rank < 1 THEN 500 ELSE IF s > 1000 THEN 1000 ELSE s

FtsRanks == {0, -4000}

FTS_LIMIT == 20
STRATEGY_MIN_RESULTS == 3
MAX_QUERY_WORDS == 10

\* KnowledgeGraph::fts_search followed by to_search_results: the matching
\* rows of the project joined with their nodes, each with some rank,
\* ordered by rank and cut to FTS_LIMIT.
FtsLists(db, project_id, rows) ==
    LET ids == { r.node_id : r \in { x \in rows : x.project_id = project_id } } \cap
               { n.id : n \in db.nodes }
        node(id) == node_from_row(CHOOSE n \in db.nodes : n.id = id)
    IN  UNION { SortedLists({ SearchResult(node(id), normalize_bm25_score(rk[id]), "L1Fts") :
                                id \in ids }, FTS_LIMIT) :
                rk \in [ids -> FtsRanks] }

is_fts_operator(word) ==
    to_lowercase(word) \in { <<"a","n","d">>, <<"o","r">>, <<"n","o","t">>, <<"n","e","a","r">> }

\* The tokens of the words joined by spaces.
WordsTokens(words) ==
    LET F[i \in 0..Len(words)] ==
            IF i = 0 THEN <<>> ELSE F[i-1] \o FtsTokens(words[i])
    IN  F[Len(words)]

\* A faulty fts_search that stops at the first strategy returning any row.
fts_search_any_row(db, project_id, query) ==
    LET all   == SelectSeq(split_whitespace(query), LAMBDA w : ~is_fts_operator(w))
        words == Truncate(all, MAX_QUERY_WORDS)
        s1 == { r \in db.fts : RowHasPhrase(r, WordsTokens(words), FALSE) }
        s2 == { r \in db.fts : \A i \in 1..Len(words) :
                                  RowHasPhrase(r, FtsTokens(words[i]), TRUE) }
        s3 == { r \in db.fts : \E i \in 1..Len(words) :
                                  RowHasPhrase(r, FtsTokens(words[i]), FALSE) }
        live(rows) == Cardinality({ r \in rows : r.project_id = project_id
                                       /\ \E n \in db.nodes : n.id = r.node_id })
    IN  IF words = <<>> THEN { <<>> }
        ELSE IF Len(words) = 1 THEN FtsLists(db, project_id, s1)
        ELSE IF live(s1) >= 1 THEN FtsLists(db, project_id, s1)
        ELSE IF live(s2) >= 1 THEN FtsLists(db, project_id, s2)
        ELSE FtsLists(db, project_id, s3)

\* fts::fts_search: the set of lists it can return.
fts_search(db, project_id, query) ==
    LET all   == SelectSeq(split_whitespace(query), LAMBDA w : ~is_fts_operator(w))
        words == Truncate(all, MAX_QUERY_WORDS)
        s1 == { r \in db.fts : RowHasPhrase(r, WordsTokens(words), FALSE) }
        s2 == { r \in db.fts : \A i \in 1..Len(words) :
                                  RowHasPhrase(r, FtsTokens(words[i]), TRUE) }
        s3 == { r \in db.fts : \E i \in 1..Len(words) :
                                  RowHasPhrase(r, FtsTokens(words[i]), FALSE) }
        live(rows) == Cardinality({ r \in rows : r.project_id = project_id
                                       /\ \E n \in db.nodes : n.id = r.node_id })
    IN  IF words = <<>> THEN { <<>> }
        ELSE IF Len(words) = 1 THEN FtsLists(db, project_id, s1)
        ELSE IF live(s1) >= STRATEGY_MIN_RESULTS THEN FtsLists(db, project_id, s1)
        ELSE IF live(s2) >= STRATEGY_MIN_RESULTS THEN FtsLists(db, project_id, s2)
        ELSE FtsLists(db, project_id, s3)

----------------------------------------------------------------------------
(* L2: hashed bag-of-words cosine similarity *)

VecChar(c) == IsAlnum(c) \/ c = "_"

\* vector::tokenize
tokenize(input) ==
    LET parts == Pieces(input, { i \in 1..Len(input) : VecChar(input[i]) })
    IN  SelectSeq([i \in 1..Len(parts) |-> to_lowercase(trim(parts[i]))],
                  LAMBDA part : Len(part) > 1)

combined_node_text(node) ==
    node.name \o (IF IsSome(node.summary) THEN <<" ">> \o Unwrap(node.summary) ELSE <<>>)
              \o (IF IsSome(node.file_path) THEN <<" ">> \o Unwrap(node.file_path) ELSE <<>>)

VECTOR_DIMENSION == 256
VECTOR_LIMIT == 20
MIN_SCORE == 200

\* stable_hash(token) % VECTOR_DIMENSION: DefaultHasher (SipHash-1-3 with
\* zero keys) over the token's bytes and 0xff, for the tokens of the model.
stable_hash(token) ==
    CASE token = <<"m","d">> -> 176
      [] token = <<"a","b">> -> 27
      [] token = <<"c","d">> -> 24
      [] token = <<"t","o","m","l">> -> 200
      [] token = <<"o","r">> -> 7
      [] token = <<"a","n","d">> -> 176
      [] token = <<"n","o","t">> -> 220
      [] token = <<"n","e","a","r">> -> 45
      [] token = <<"_","_">> -> 81

\* build_vector before normalize: the count of tokens per index.
build_vector(tokens) ==
    [b \in { stable_hash(tokens[i]) : i \in 1..Len(tokens) } |->
        Cardinality({ i \in 1..Len(tokens) : stable_hash(tokens[i]) = b })]

RECURSIVE SumOver(_, _)
SumOver(S, f) ==
    IF S = {} THEN 0
    ELSE LET x == CHOOSE y \in S : TRUE IN f[x] + SumOver(S \ {x}, f)

\* The largest s in lo..hi with s * s * b <= a.
RECURSIVE RootBetween(_, _, _, _)
RootBetween(lo, hi, a, b) ==
    IF lo >= hi THEN lo
    ELSE IF ((lo + hi + 1) \div 2) * ((lo + hi + 1) \div 2) * b <= a
         THEN RootBetween((lo + hi + 1) \div 2, hi, a, b)
         ELSE RootBetween(lo, ((lo + hi + 1) \div 2) - 1, a, b)

\* cosine_similarity of the two normalized vectors, in thousandths:
\* 1000 * dot / sqrt(|lhs|^2 * |rhs|^2), rounded down.
cosine_similarity(lhs, rhs) ==
    RootBetween(0, 1000,
        1000000 * SumOver(DOMAIN lhs \cap DOMAIN rhs,
                          [b \in DOMAIN lhs \cap DOMAIN rhs |-> lhs[b] * rhs[b]])
                * SumOver(DOMAIN lhs \cap DOMAIN rhs,
                          [b \in DOMAIN lhs \cap DOMAIN rhs |-> lhs[b] * rhs[b]]),
        SumOver(DOMAIN lhs, [b \in DOMAIN lhs |-> lhs[b] * lhs[b]])
          * SumOver(DOMAIN rhs, [b \in DOMAIN rhs |-> rhs[b] * rhs[b]]))

get_all_nodes(db, project_id) ==
    { node_from_row(n) : n \in { m \in db.nodes : m.project_id = project_id } }

\* vector::vector_search: the set of lists it can return.
vector_search(db, project_id, query) ==
    IF tokenize(query) = <<>> THEN { <<>> }
    ELSE SortedLists(
           { r \in { SearchResult(n, cosine_similarity(build_vector(tokenize(query)),
                                     build_vector(tokenize(combined_node_text(n)))),
                                  "L2Vector") :
                       n \in { m \in get_all_nodes(db, project_id) :
                                 tokenize(combined_node_text(m)) # <<>> } } :
               r.score >= MIN_SCORE }, VECTOR_LIMIT)

----------------------------------------------------------------------------
(* Pointers and responses *)

\* The number of whitespace-separated words of the given strings joined by
\* single spaces.
WordCount(strings) ==
    LET F[i \in 0..Len(strings)] ==
            IF i = 0 THEN 0 ELSE F[i-1] + Len(split_whitespace(strings[i]))
    IN  F[Len(strings)]

DivCeil(a, b) == (a + b - 1) \div b

\* One element of results_to_pointers.  lines is the pair that format!
\* prints as "start-end".
Pointer(r) ==
    [ id        |-> r.node.id,
      source    |-> IF IsSome(r.node.file_path) THEN Unwrap(r.node.file_path) ELSE <<>>,
      chunk     |-> r.node.name,
      lines     |-> << IF IsSome(r.node.start_line) THEN Unwrap(r.node.start_line) ELSE 0,
                       IF IsSome(r.node.end_line) THEN Unwrap(r.node.end_line) ELSE 0 >>,
      relevance |-> r.score,
      summary   |-> IF IsSome(r.node.summary) THEN Unwrap(r.node.summary) ELSE <<>>,
      node_type |-> NodeType_as_str(r.node.node_type) ]

results_to_pointers(results) == [i \in 1..Len(results) |-> Pointer(results[i])]

\* Pointer::estimate_token_count: the printed lines field is one word.
estimate_token_count(p) ==
    DivCeil((WordCount(<<p.source, p.chunk, p.summary>>) + 1) * 4, 3) + 2

\* PointerResponse::build(pointers, 0); savings_pct in hundredths of a
\* percent.
PointerResponse(pointers) ==
    LET F[i \in 0..Len(pointers)] ==
            IF i = 0 THEN 0 ELSE F[i-1] + estimate_token_count(pointers[i])
        pointer_tokens == F[Len(pointers)]
    IN  [ pointers   |-> pointers,
          accounting |-> [ pointer_tokens |-> pointer_tokens,
                           fetched_tokens |-> 0,
                           total_tokens   |-> pointer_tokens,
                           traditional_rag_estimate |-> pointer_tokens * 15,
                           savings_pct |-> IF pointer_tokens > 0
                                           THEN ((pointer_tokens * 14) * 10000)
                                                   \div (pointer_tokens * 15)
                                           ELSE 0 ] ]

----------------------------------------------------------------------------
(* SearchEngine::search *)

CACHE_TTL_SECS == 60
CACHE_MAX_ENTRIES == 2        \* 256 in the source, scaled down
FETCH_CACHE_MAX_ENTRIES == 1  \* 50 in the source, scaled down

SHORT_CIRCUIT_SKIP_ALL == 900
SHORT_CIRCUIT_SKIP_L2 == 800

\* f64::INFINITY: above every score.
INFINITY == 1001

\* format!("{}:{}", query.trim().to_lowercase(), top_k)
CacheKey(query, top_k) == <<to_lowercase(trim(query)), top_k>>

\* l0_results.iter().take(top_k).map(score).fold(INFINITY, min)
min_score(l0_results, top_k) ==
    LET n == IF Len(l0_results) < top_k THEN Len(l0_results) ELSE top_k
        F[i \in 0..n] ==
            IF i = 0 THEN INFINITY
            ELSE IF l0_results[i].score < F[i-1] THEN l0_results[i].score ELSE F[i-1]
    IN  F[n]

\* A faulty tier selection that forgets to compare the length of the L0
\* list with top_k.
TiersToRunAnyLength(l0_results, top_k) ==
    IF min_score(l0_results, top_k) >= SHORT_CIRCUIT_SKIP_ALL THEN {"L0Literal"}
    ELSE IF min_score(l0_results, top_k) >= SHORT_CIRCUIT_SKIP_L2
    THEN {"L0Literal", "L1Fts"}
    ELSE {"L0Literal", "L1Fts", "L2Vector"}

\* The tiers search runs on a cache miss, given the L0 list.
TiersToRun(l0_results, top_k) ==
    IF Len(l0_results) >= top_k
       /\ min_score(l0_results, top_k) >= SHORT_CIRCUIT_SKIP_ALL
    THEN {"L0Literal"}
    ELSE IF Len(l0_results) >= top_k
            /\ min_score(l0_results, top_k) >= SHORT_CIRCUIT_SKIP_L2
    THEN {"L0Literal", "L1Fts"}
    ELSE {"L0Literal", "L1Fts", "L2Vector"}

\* What the tiers after L0 add, given the L0 list: every [tiers, l0, all]
\* with all the concatenation of the lists of the tiers that ran.
RunTiers(db, project_id, query, top_k, l0) ==
    { [tiers |-> TiersToRun(l0, top_k), l0 |-> l0, all |-> l0 \o l1 \o l2] :
        l1 \in IF "L1Fts" \in TiersToRun(l0, top_k)
               THEN fts_search(db, project_id, query) ELSE { <<>> },
        l2 \in IF "L2Vector" \in TiersToRun(l0, top_k)
               THEN vector_search(db, project_id, query) ELSE { <<>> } }

\* The body of search after a cache miss: every [tiers, l0, response] it
\* can compute on the store.
SearchMiss(db, project_id, query, top_k) ==
    UNION { { [tiers |-> c.tiers, l0 |-> c.l0,
               response |-> PointerResponse(results_to_pointers(merged))] :
                merged \in deduplicate_and_rank(c.all, top_k) } :
            c \in UNION { RunTiers(db, project_id, query, top_k, l0) :
                            l0 \in literal_search(db, project_id, query) } }

\* A faulty lookup that still returns an entry of exactly the TTL's age.
CacheHitAtTtl(cache, key, t) ==
    key \in DOMAIN cache /\ t - cache[key].inserted_at <= CACHE_TTL_SECS

\* get_from_cache: the entry under key is returned while younger than the
\* TTL.
CacheHit(cache, key, t) ==
    key \in DOMAIN cache /\ t - cache[key].inserted_at < CACHE_TTL_SECS

\* get_from_cache: the cache it leaves; an expired entry is removed.
CacheAfterGet(cache, key, t) ==
    IF key \in DOMAIN cache /\ ~CacheHit(cache, key, t)
    THEN [k \in DOMAIN cache \ {key} |-> cache[k]]
    ELSE cache

\* A faulty insert that never evicts.
InsertNoEvict(cache, key, response, t) ==
    { [k \in DOMAIN cache \cup {key} |->
          IF k = key THEN [response |-> response, inserted_at |-> t] ELSE cache[k]] }

\* A faulty insert that evicts an entry with the latest insert time.
insert_evict_newest(cache, key, response, t) ==
    LET fresh  == { k \in DOMAIN cache : t - cache[k].inserted_at < CACHE_TTL_SECS }
        newest == { k \in fresh : \A j \in fresh :
                                     cache[k].inserted_at >= cache[j].inserted_at }
        kept   == IF Cardinality(DOMAIN cache) < CACHE_MAX_ENTRIES THEN { DOMAIN cache }
                  ELSE IF Cardinality(fresh) < CACHE_MAX_ENTRIES \/ fresh = {} THEN { fresh }
                  ELSE { fresh \ {k} : k \in newest }
    IN  { [k \in ks \cup {key} |->
            IF k = key THEN [response |-> response, inserted_at |-> t] ELSE cache[k]] :
          ks \in kept }

\* insert_into_cache: the caches it can leave.  With the cache full the
\* expired entries go; if it is still full, one entry with the earliest
\* insert time goes (any of them when several are as old).
insert_into_cache(cache, key, response, t) ==
    LET fresh  == { k \in DOMAIN cache : t - cache[k].inserted_at < CACHE_TTL_SECS }
        oldest == { k \in fresh : \A j \in fresh :
                                     cache[k].inserted_at <= cache[j].inserted_at }
        kept   == IF Cardinality(DOMAIN cache) < CACHE_MAX_ENTRIES THEN { DOMAIN cache }
                  ELSE IF Cardinality(fresh) < CACHE_MAX_ENTRIES \/ fresh = {} THEN { fresh }
                  ELSE { fresh \ {k} : k \in oldest }
    IN  { [k \in ks \cup {key} |->
            IF k = key THEN [response |-> response, inserted_at |-> t] ELSE cache[k]] :
          ks \in kept }

----------------------------------------------------------------------------
(* SearchEngine::fetch *)

\* read_node_content: the text of the node's lines, read from disk now.
\* `end as usize` turns a negative end_line into a value above any length.
read_node_content(fsys, node) ==
    IF ~IsSome(node.file_path) THEN [kind |-> "text", lines |-> <<>>]
    ELSE IF ~ReadOk(fsys, Unwrap(node.file_path))
    THEN [kind |-> "file_not_found", lines |-> <<>>]
    ELSE
      LET lines == ReadLines(fsys, Unwrap(node.file_path))
          s     == IF IsSome(node.start_line) THEN Unwrap(node.start_line) ELSE 1
          start == IF s < 1 THEN 1 ELSE s
          end   == IF IsSome(node.end_line) THEN Unwrap(node.end_line) ELSE 0
          start_idx == IF start - 1 < Len(lines) THEN start - 1 ELSE Len(lines)
          end_idx   == IF end < 0 \/ end >= Len(lines) THEN Len(lines) ELSE end
      IN  IF end = 0 THEN [kind |-> "text", lines |-> lines]
          ELSE IF start_idx > end_idx THEN [kind |-> "panic", lines |-> <<>>]
          ELSE [kind |-> "text", lines |-> SubSeq(lines, start_idx + 1, end_idx)]

FetchKey(node) ==
    << IF IsSome(node.file_path) THEN Unwrap(node.file_path) ELSE <<>>,
       IF IsSome(node.start_line) THEN Unwrap(node.start_line) ELSE 0,
       IF IsSome(node.end_line) THEN Unwrap(node.end_line) ELSE 0 >>

\* The insert of read_node_content_cached: with the cache full, the first
\* key the map iterates over goes, whichever it is.
FetchCacheInsert(cache, key, content) ==
    { [k \in ks \cup {key} |-> IF k = key THEN content ELSE cache[k]] :
        ks \in IF Cardinality(DOMAIN cache) >= FETCH_CACHE_MAX_ENTRIES /\ DOMAIN cache # {}
               THEN { DOMAIN cache \ {k} : k \in DOMAIN cache }
               ELSE { DOMAIN cache } }

\* read_node_content_cached: every [content, cache] it can end with.
read_node_content_cached(fsys, cache, node) ==
    IF FetchKey(node)[1] # <<>> /\ FetchKey(node) \in DOMAIN cache
    THEN { [content |-> cache[FetchKey(node)], cache |-> cache] }
    ELSE IF read_node_content(fsys, node).kind = "panic" \/ FetchKey(node)[1] = <<>>
    THEN { [content |-> read_node_content(fsys, node), cache |-> cache] }
    ELSE { [content |-> read_node_content(fsys, node), cache |-> c] :
             c \in FetchCacheInsert(cache, FetchKey(node), read_node_content(fsys, node)) }

----------------------------------------------------------------------------
(* The engine in use: searches and fetches by the threads of a process     *)
(* that holds one HermesEngine and one SearchEngine, the index verb, and   *)
(* the clock.  A search takes the cache lock twice, in get_from_cache and  *)
(* in insert_into_cache; other calls can run in between.                   *)

\* The directory of the search specifications: one markdown file with two
\* headings.
SearchText == TextFile(<<Heading(NameAb), Text(<<"x">>), Heading(NameCd)>>)

InitFs == [p \in Range(AllPaths) |-> IF p = PathA THEN SearchText ELSE Absent]

Queries ==
    { <<"a">>, <<"/", "_", ".", "m">>, <<"m">>, <<"a", "b">>, <<"A", "B", " ">> }

SearchCall(query, top_k, hit, tiers, l0, response) ==
    [ kind |-> "search", query |-> query, top_k |-> top_k, hit |-> hit,
      tiers |-> tiers, l0 |-> l0, response |-> response ]

\* search up to its return on a hit, or up to the call of insert_into_cache
\* on a miss.
SearchBegin(t, query, top_k) ==
    /\ pc[t] = Idle
    /\ IF CacheHit(search_cache, CacheKey(query, top_k), now)
       THEN /\ last_call' = SearchCall(query, top_k, TRUE, {}, <<>>,
                                  search_cache[CacheKey(query, top_k)].response)
            /\ UNCHANGED <<search_cache, pc>>
       ELSE \E o \in SearchMiss(Db, ProjectId, query, top_k) :
            /\ search_cache' = CacheAfterGet(search_cache, CacheKey(query, top_k), now)
            /\ pc' = [pc EXCEPT ![t] = [at |-> "insert", key |-> CacheKey(query, top_k),
                                        response |-> o.response]]
            /\ last_call' = SearchCall(query, top_k, FALSE, o.tiers, o.l0, o.response)
    /\ calls' = calls + 1
    /\ UNCHANGED <<fetch_cache, now, ingest_vars, dedup_vars, server_vars, fact_vars>>

\* insert_into_cache and the return of search after a miss.
SearchFinish(t) ==
    /\ pc[t] # Idle
    /\ \E c \in insert_into_cache(search_cache, pc[t].key, pc[t].response, now) :
          search_cache' = c
    /\ pc' = [pc EXCEPT ![t] = Idle]
    /\ UNCHANGED <<fetch_cache, now, last_call, calls, ingest_vars, dedup_vars, server_vars, fact_vars>>

\* SearchEngine::fetch(pointer_id)
Fetch(id) ==
    /\ IF IsSome(get_node(Db, ProjectId, id))
       THEN \E r \in read_node_content_cached(fs, fetch_cache,
                                              Unwrap(get_node(Db, ProjectId, id))) :
            /\ fetch_cache' = r.cache
            /\ last_call' = [kind |-> "fetch", pointer_id |-> id, found |-> TRUE,
                        content |-> r.content]
       ELSE /\ last_call' = [kind |-> "fetch", pointer_id |-> id, found |-> FALSE,
                        content |-> <<>>]
            /\ UNCHANGED fetch_cache
    /\ calls' = calls + 1
    /\ UNCHANGED <<search_cache, now, pc, ingest_vars, dedup_vars, server_vars, fact_vars>>

\* A faulty invalidate that clears nothing.
invalidate_nothing(cache) == cache

\* HermesEngine::invalidate_search_cache: cache.clear().
invalidate_search_cache(cache) == <<>>

InvalidateSearchCache ==
    /\ search_cache # <<>>
    /\ search_cache' = invalidate_search_cache(search_cache)
    /\ UNCHANGED <<fetch_cache, now, pc, last_call, calls, ingest_vars, dedup_vars, server_vars, fact_vars>>

\* The index verb (tool_index, cmd_index): ingest_directory(root)? and then
\* invalidate_search_cache(); an Err of ingest_directory returns before the
\* cache is cleared.
ToolIndex ==
    /\ \E r \in { ingest_directory(Db, ProjectId, fs) } :
        /\ r.db.uuid <= MaxUuid + 1
        /\ nodes' = r.db.nodes /\ edges' = r.db.edges /\ fts_content' = r.db.fts
        /\ file_hashes' = r.db.hashes /\ uuid_next' = r.db.uuid
        /\ search_cache' = IF r.ok THEN invalidate_search_cache(search_cache)
                           ELSE search_cache
        /\ last_call' = [kind |-> "index", ok |-> r.ok,
                          cached |-> Cardinality(DOMAIN search_cache)]
    /\ UNCHANGED <<fs, last_run, quiet_runs, fetch_cache, now, pc, calls, dedup_vars, server_vars, fact_vars>>

Tick ==
    /\ now + TickSecs <= MaxTicks * TickSecs
    /\ now' = now + TickSecs
    /\ UNCHANGED <<search_cache, fetch_cache, pc, last_call, calls, ingest_vars, dedup_vars, server_vars, fact_vars>>

InitSearch ==
    /\ fs = InitFs
    /\ nodes = {} /\ edges = {} /\ fts_content = {} /\ file_hashes = {}
    /\ uuid_next = 1 /\ last_run = NoRun /\ quiet_runs = 0
    /\ IdleDedup
    /\ IdleSearch /\ IdleServer
    /\ IdleFacts

\* The tiers: every query and top_k, one thread, the clock at rest.
NextSearch ==
    \/ \E q \in Queries, k \in 0..MaxTopK :
          calls < MaxSearches /\ SearchBegin("t1", q, k)
    \/ SearchFinish("t1")
    \/ ToolIndex
    \/ InvalidateSearchCache

SpecSearch == InitSearch /\ [][NextSearch]_vars

CacheQueries == { <<"a">>, <<"m">>, <<"a", "b">> }
FetchIds == {1, 2, 3}

\* The caches: two threads, the clock, searches with top_k = 1 and fetches.
NextCache ==
    \/ \E t \in Threads, q \in CacheQueries :
          calls < MaxCalls /\ SearchBegin(t, q, 1)
    \/ \E t \in Threads : SearchFinish(t)
    \/ \E id \in FetchIds : calls < MaxCalls /\ Fetch(id)
    \/ ToolIndex
    \/ InvalidateSearchCache
    \/ Tick

SpecCache == InitSearch /\ [][NextCache]_vars

----------------------------------------------------------------------------
(* Claims about search (SpecSearch) *)

AllTiers == {"L0Literal", "L1Fts", "L2Vector"}

\* The first top_k entries of the L0 list (all of them when it is shorter)
\* score at least th: their minimum is at least th, the minimum of no
\* entry being infinite.
FirstAtLeast(l0, top_k, th) ==
    \A i \in 1..(IF Len(l0) < top_k THEN Len(l0) ELSE top_k) : l0[i].score >= th

\* Every pointer of the response is an entry of the list, with its score.
DrawnFrom(response, list) ==
    \A i \in 1..Len(response.pointers) :
        \E j \in 1..Len(list) :
            /\ response.pointers[i].id = list[j].node.id
            /\ response.pointers[i].relevance = list[j].score

\* C3: on a cache miss, with R0 the L0 list and m the minimum score of its
\* first top_k entries: if |R0| >= top_k and m >= 0.9 only L0 runs and the
\* result is drawn from R0; if |R0| >= top_k and 0.8 <= m < 0.9, L0 and L1
\* run and L2 does not; in every other case all three tiers run.
C3_TierSelection ==
    (last_call.kind = "search" /\ ~last_call.hit) =>
        IF Len(last_call.l0) >= last_call.top_k
           /\ FirstAtLeast(last_call.l0, last_call.top_k, 900)
        THEN /\ last_call.tiers = {"L0Literal"}
             /\ DrawnFrom(last_call.response, last_call.l0)
        ELSE IF Len(last_call.l0) >= last_call.top_k
                /\ FirstAtLeast(last_call.l0, last_call.top_k, 800)
        THEN last_call.tiers = {"L0Literal", "L1Fts"}
        ELSE last_call.tiers = AllTiers

\* A miss where the L0 list is long enough and its minimum lies in
\* [0.8, 0.9): L1 ran and L2 did not.
C3_Witness ==
    /\ last_call.kind = "search" /\ ~last_call.hit
    /\ last_call.top_k = 1
    /\ Len(last_call.l0) = 1
    /\ last_call.l0[1].score = 820
    /\ last_call.tiers = {"L0Literal", "L1Fts"}

\* C6: the response of every search holds at most top_k pointers, their
\* node ids are pairwise distinct and their relevance never increases down
\* the list; with top_k = 0 the list is empty and pointer_tokens is 0.
C6_ResultShape ==
    last_call.kind = "search" =>
        /\ Len(last_call.response.pointers) <= last_call.top_k
        /\ \A i, j \in 1..Len(last_call.response.pointers) :
              /\ i # j => last_call.response.pointers[i].id
                            # last_call.response.pointers[j].id
              /\ i < j => last_call.response.pointers[i].relevance
                            >= last_call.response.pointers[j].relevance
        /\ last_call.top_k = 0 =>
              /\ last_call.response.pointers = <<>>
              /\ last_call.response.accounting.pointer_tokens = 0

\* A search with top_k = 2 over all three tiers that returns two pointers
\* of different relevance.
C6_Witness ==
    /\ last_call.kind = "search"
    /\ last_call.top_k = 2
    /\ last_call.tiers = AllTiers
    /\ Len(last_call.response.pointers) = 2
    /\ last_call.response.pointers[1].relevance > last_call.response.pointers[2].relevance

----------------------------------------------------------------------------
(* Claims about the caches (SpecCache) *)

\* This step is the lookup of a search; last_call' describes it.
SearchLooksUp == calls' = calls + 1 /\ last_call'.kind = "search"

LookedUpKey == CacheKey(last_call'.query, last_call'.top_k)

Fresh(cache, key, t) == t - cache[key].inserted_at < CACHE_TTL_SECS

\* The lookup rule: a search whose key has an entry younger than 60s
\* returns that entry's response, runs no tier and leaves the entry; a
\* search whose key has an entry of 60s or more does not return it and
\* removes it.
LookupRule ==
    (SearchLooksUp /\ LookedUpKey \in DOMAIN search_cache) =>
        IF Fresh(search_cache, LookedUpKey, now)
        THEN /\ last_call'.hit
             /\ last_call'.tiers = {}
             /\ last_call'.response = search_cache[LookedUpKey].response
             /\ search_cache' = search_cache
        ELSE /\ ~last_call'.hit
             /\ LookedUpKey \notin DOMAIN search_cache'

\* The entry under key is the same before and after the step.
Kept(key) ==
    key \in DOMAIN search_cache' /\ search_cache'[key] = search_cache[key]

\* This step is the insert_into_cache of thread t.
Inserts(t) == pc[t] # Idle /\ pc'[t] = Idle

\* C7 as stated: a response stored under a key at time t is returned,
\* with no tier run, by every search with that key before t + 60s unless
\* the cache is invalidated in between, so until then the key keeps that
\* response; a lookup at t + 60s or later does not return it and removes it.
C7_TtlUnlessInvalidated ==
    [][ /\ LookupRule
        /\ \A key \in DOMAIN search_cache :
              (Fresh(search_cache, key, now) /\ search_cache' # <<>>) =>
                  /\ key \in DOMAIN search_cache'
                  /\ search_cache'[key].response = search_cache[key].response
      ]_vars

\* C7, amended: the lookup rule holds for an entry that is in the cache,
\* and an entry younger than 60s leaves the cache or changes only when the
\* cache is invalidated, when a search stores a response under the same
\* key, or when an insert finds the cache full of entries younger than 60s
\* and this entry is one with the earliest insert time.
C7_CacheTtl ==
    [][ /\ LookupRule
        /\ \A key \in DOMAIN search_cache :
              Fresh(search_cache, key, now) =>
                  \/ Kept(key)
                  \/ search_cache' = <<>>
                  \/ \E t \in Threads :
                        /\ Inserts(t)
                        /\ \/ pc[t].key = key
                           \/ /\ Cardinality(DOMAIN search_cache) >= CACHE_MAX_ENTRIES
                              /\ \A k \in DOMAIN search_cache :
                                    /\ Fresh(search_cache, k, now)
                                    /\ search_cache[key].inserted_at
                                          <= search_cache[k].inserted_at
      ]_vars

\* A search has just been answered from an entry stored 30s earlier.
C7_Witness ==
    /\ last_call.kind = "search" /\ last_call.hit
    /\ CacheKey(last_call.query, last_call.top_k) \in DOMAIN search_cache
    /\ now - search_cache[CacheKey(last_call.query, last_call.top_k)].inserted_at = TickSecs
    /\ last_call.response
          = search_cache[CacheKey(last_call.query, last_call.top_k)].response

\* C8: when the index verb completes (ingest_directory returned Ok and
\* invalidate_search_cache ran), the result cache is empty; and a search
\* that finds the cache empty is a miss computed on the store as it is.
C8_IndexInvalidates ==
    [][ /\ (ToolIndex /\ last_call'.ok) => search_cache' = <<>>
        /\ (SearchLooksUp /\ search_cache = <<>>) =>
              /\ ~last_call'.hit
              /\ \E o \in SearchMiss(Db, ProjectId, last_call'.query, last_call'.top_k) :
                    /\ last_call'.tiers = o.tiers
                    /\ last_call'.response = o.response
      ]_vars

\* The index verb has completed on a cache that held an entry.
C8_Witness ==
    /\ last_call.kind = "index" /\ last_call.ok
    /\ last_call.cached >= 1
    /\ nodes # {}
    /\ search_cache = <<>>

\* C9: the result cache never holds more than CACHE_MAX_ENTRIES entries
\* and the fetch cache never more than FETCH_CACHE_MAX_ENTRIES, whatever
\* the interleaving of searches, fetches and invalidations.
C9_CacheCapacity ==
    /\ Cardinality(DOMAIN search_cache) <= CACHE_MAX_ENTRIES
    /\ Cardinality(DOMAIN fetch_cache) <= FETCH_CACHE_MAX_ENTRIES

\* Both caches are at capacity, a third search has missed and inserted,
\* and another is waiting to insert under a key the cache does not hold.
C9_Witness ==
    /\ Cardinality(DOMAIN search_cache) = CACHE_MAX_ENTRIES
    /\ Cardinality(DOMAIN fetch_cache) = FETCH_CACHE_MAX_ENTRIES
    /\ \E t \in Threads : pc[t] # Idle /\ pc[t].key \notin DOMAIN search_cache

----------------------------------------------------------------------------
(* Temporal facts.  Two TemporalStore values share the database, one per   *)
(* project id.  Utc::now() is read from the clock now, which stands still  *)
(* in SpecFacts.                                                           *)

Projects == {ProjectId, "other"}
FactTypes == {"decision", "learning"}

TemporalFact(id, project_id, node_id, fact_type, content, valid_from, valid_to, superseded_by, source_reference) ==
    [ id |-> id, project_id |-> project_id, node_id |-> node_id,
      fact_type |-> fact_type, content |-> content, valid_from |-> valid_from,
      valid_to |-> valid_to, superseded_by |-> superseded_by,
      source_reference |-> source_reference ]

\* TemporalStore::add_fact: INSERT with valid_from = now and valid_to,
\* superseded_by NULL.
add_fact(facts, project_id, id, node_id, fact_type, content, source_reference, t) ==
    facts \cup { TemporalFact(id, project_id, node_id, fact_type, content, t,
                              None, None, source_reference) }

\* A faulty invalidate_fact that deletes the row.
invalidate_fact_delete(facts, project_id, fact_id, superseded_by, t) ==
    { f \in facts : ~(f.id = fact_id /\ f.project_id = project_id) }

\* A faulty invalidate_fact that updates active facts only.
invalidate_fact_if_active(facts, project_id, fact_id, superseded_by, t) ==
    { IF f.id = fact_id /\ f.project_id = project_id /\ f.valid_to = None
      THEN [f EXCEPT !.valid_to = Some(t), !.superseded_by = superseded_by]
      ELSE f : f \in facts }

\* TemporalStore::invalidate_fact: UPDATE ... SET valid_to = now,
\* superseded_by = ? WHERE id = ? AND project_id = ?.
invalidate_fact(facts, project_id, fact_id, superseded_by, t) ==
    { IF f.id = fact_id /\ f.project_id = project_id
      THEN [f EXCEPT !.valid_to = Some(t), !.superseded_by = superseded_by]
      ELSE f : f \in facts }

\* A faulty query without the filter valid_to IS NULL.
get_all_facts(facts, project_id, fact_type) ==
    { f \in facts : /\ f.project_id = project_id
                    /\ IsSome(fact_type) => f.fact_type = Unwrap(fact_type) }

\* TemporalStore::get_active_facts: the rows of the project with valid_to
\* NULL, of the given type if one is given (returned by descending
\* valid_from).
get_active_facts(facts, project_id, fact_type) ==
    { f \in facts : /\ f.project_id = project_id
                    /\ f.valid_to = None
                    /\ IsSome(fact_type) => f.fact_type = Unwrap(fact_type) }

\* A call of add_fact.  With foreign keys enforced the INSERT of a row whose
\* node_id names no node fails and add_fact returns Err.
AddFact(project_id, fact_type, node_id) ==
    /\ Cardinality(temporal_facts) < MaxFacts
    /\ IF foreign_keys /\ IsSome(node_id) /\ \A n \in nodes : n.id # Unwrap(node_id)
       THEN /\ last_call' = [kind |-> "add_fact_err", project_id |-> project_id]
            /\ UNCHANGED <<temporal_facts, uuid_next>>
       ELSE /\ temporal_facts' = add_fact(temporal_facts, project_id, uuid_next, node_id,
                                          fact_type, <<"c">>, None, now)
            /\ uuid_next' = uuid_next + 1
            /\ last_call' = [kind |-> "add_fact", project_id |-> project_id,
                             id |-> uuid_next, fact_type |-> fact_type]
    /\ UNCHANGED <<fs, nodes, edges, fts_content, file_hashes, last_run, quiet_runs,
                   search_cache, fetch_cache, now, pc, calls, dedup_vars, server_vars, foreign_keys,
                   accounting>>

InvalidateFact(project_id, fact_id, superseded_by) ==
    /\ temporal_facts' = invalidate_fact(temporal_facts, project_id, fact_id,
                                         superseded_by, now)
    /\ last_call' = [kind |-> "invalidate_fact", project_id |-> project_id,
                     fact_id |-> fact_id, superseded_by |-> superseded_by]
    /\ UNCHANGED <<ingest_vars, search_cache, fetch_cache, now, pc, calls, dedup_vars, server_vars,
                   foreign_keys, accounting>>

InitFacts == IdleIngest /\ IdleDedup /\ IdleSearch /\ IdleServer /\ IdleFacts

NextFacts ==
    \/ \E p \in Projects, ft \in FactTypes : AddFact(p, ft, None)
    \/ \E p \in Projects, id \in 1..MaxFacts, s \in {None, Some(1)} :
          InvalidateFact(p, id, s)

SpecFacts == InitFacts /\ [][NextFacts]_vars

----------------------------------------------------------------------------
(* Claims about temporal facts (SpecFacts) *)

TypeFilters == {None} \cup { Some(ft) : ft \in FactTypes }

IsActive(facts, project_id, id, filter) ==
    \E f \in get_active_facts(facts, project_id, filter) : f.id = id

\* The fact add_fact has just returned the id of is active, under no
\* filter and under its type, with valid_to null.
AddedIsActive ==
    last_call.kind = "add_fact" =>
        /\ \E f \in get_active_facts(temporal_facts, last_call.project_id, None) :
              f.id = last_call.id /\ f.valid_to = None
        /\ \E f \in get_active_facts(temporal_facts, last_call.project_id,
                                     Some(last_call.fact_type)) :
              f.id = last_call.id /\ f.valid_to = None

\* The fact invalidate_fact has just been called on, by its own project,
\* is active under no filter.
InvalidatedIsInactive ==
    last_call.kind = "invalidate_fact" =>
        \A filter \in TypeFilters :
            ~IsActive(temporal_facts, last_call.project_id, last_call.fact_id, filter)

\* C10: right after add_fact returns id the fact is in get_active_facts(None)
\* and in get_active_facts(its type) with valid_to null; after
\* invalidate_fact(id, _) by its project it is in neither; and a fact that
\* is not active is not made active by any later add_fact or invalidate_fact.
C10_ActiveSet ==
    [][ /\ AddedIsActive'
        /\ InvalidatedIsInactive'
        /\ \A f \in temporal_facts : \A filter \in TypeFilters :
              ~IsActive(temporal_facts, f.project_id, f.id, filter) =>
                  ~IsActive(temporal_facts', f.project_id, f.id, filter)
      ]_vars

\* A fact was added and invalidated, and a later fact of the same project
\* and type has just been added and is active.
C10_Witness ==
    /\ last_call.kind = "add_fact"
    /\ \E f, g \in temporal_facts :
          /\ f.project_id = g.project_id /\ f.fact_type = g.fact_type
          /\ f.id < g.id /\ g.id = last_call.id
          /\ IsSome(f.valid_to) /\ g.valid_to = None
          /\ f.superseded_by = None

----------------------------------------------------------------------------
(* Facts about nodes.  One file is indexed, facts are attached to nodes,   *)
(* and the file is deleted and swept.                                      *)

\* TemporalStore::get_fact_history: the project's rows with this node_id
\* (returned by descending valid_from).
get_fact_history(facts, project_id, node_id) ==
    { f \in facts : f.project_id = project_id /\ f.node_id = Some(node_id) }

\* A call of ingest_directory(root) on a store that holds facts.  The
\* modelled directory holds one file, so the sweep runs at most one
\* delete_nodes_for_file; with foreign keys enforced its DELETE FROM nodes
\* fails when a fact names one of the nodes, after the FTS rows and the
\* edges are gone, and the call returns Err.
FactsIngest ==
    \E r \in {ingest_directory(Db, ProjectId, fs)} :
      \E gone \in {{ n \in nodes : \A m \in r.db.nodes : m.id # n.id }} :
        \E blocked \in {foreign_keys /\ \E f \in temporal_facts, n \in gone :
                                            f.node_id = Some(n.id)} :
            /\ r.db.uuid <= MaxUuid + 1
            /\ nodes' = IF blocked THEN r.db.nodes \cup gone ELSE r.db.nodes
            /\ edges' = r.db.edges
            /\ fts_content' = r.db.fts
            /\ file_hashes' = r.db.hashes
            /\ uuid_next' = r.db.uuid
            /\ last_run' = [ran |-> TRUE, ok |-> r.ok /\ ~blocked, report |-> r.report,
                            crawled |-> r.crawled, nodes_before |-> nodes,
                        results |-> r.results]
            /\ quiet_runs' = 0
            /\ UNCHANGED <<fs, dedup_vars, server_vars, search_vars, fact_vars>>

InitHistory ==
    /\ fs = [p \in Range(AllPaths) |->
                IF p = PathB THEN TextFile(<<Text(<<"x">>)>>) ELSE Absent]
    /\ nodes = {} /\ edges = {} /\ fts_content = {} /\ file_hashes = {}
    /\ uuid_next = 1 /\ last_run = NoRun /\ quiet_runs = 0
    /\ IdleDedup /\ IdleSearch /\ IdleServer
    /\ temporal_facts = {} /\ foreign_keys \in BOOLEAN /\ accounting = <<>>

NextHistory ==
    \/ FactsIngest
    \/ RemoveFile(PathB) /\ UNCHANGED <<dedup_vars, server_vars, search_vars, fact_vars>>
    \/ \E p \in Projects, nid \in {None, Some(0)} \cup { Some(n.id) : n \in nodes } :
          AddFact(p, "decision", nid)
    \/ \E f \in temporal_facts : InvalidateFact(f.project_id, f.id, None)

SpecHistory == InitHistory /\ [][NextHistory]_vars

NodeIdsNamed == { Unwrap(f.node_id) : f \in { g \in temporal_facts : IsSome(g.node_id) } }

\* C11: a fact row is never deleted, a fact whose valid_to is non-null
\* keeps a non-null valid_to, and the length of get_fact_history(node_id)
\* never decreases, whatever add_fact, invalidate_fact, ingest_directory
\* and its stale-node sweep do.
C11_AppendOnly ==
    [][ /\ \A f \in temporal_facts : \E g \in temporal_facts' :
              /\ g.id = f.id
              /\ IsSome(f.valid_to) => IsSome(g.valid_to)
        /\ \A p \in Projects, n \in NodeIdsNamed :
              Cardinality(get_fact_history(temporal_facts', p, n))
                  >= Cardinality(get_fact_history(temporal_facts, p, n))
      ]_vars

\* The node a fact names has been swept with its file; the fact, already
\* invalidated, is still in the history of that node.
C11_Witness ==
    /\ last_run.ran /\ last_run.ok
    /\ \E f \in temporal_facts :
          /\ IsSome(f.node_id) /\ IsSome(f.valid_to)
          /\ \E n \in last_run.nodes_before : n.id = Unwrap(f.node_id)
          /\ \A n \in nodes : n.id # Unwrap(f.node_id)
          /\ f \in get_fact_history(temporal_facts, f.project_id, Unwrap(f.node_id))

\* C12: the graph with an arc from each fact to the fact its superseded_by
\* names has no cycle: every non-empty set of facts holds a fact whose
\* superseded_by names no fact of the set.
C12_Acyclic ==
    \A S \in SUBSET { f.id : f \in temporal_facts } :
        S # {} =>
            \E f \in temporal_facts :
                /\ f.id \in S
                /\ \A b \in S : f.superseded_by # Some(b)

----------------------------------------------------------------------------
(* Invalidation over time: one project, one fact type, a clock that ticks. *)

NextInvalidate ==
    \/ \E p \in Projects : AddFact(p, "decision", None)
    \/ \E p \in Projects, id \in 1..MaxFacts, s \in {None, Some(2)} :
          InvalidateFact(p, id, s)
    \/ Tick

SpecInvalidate == InitFacts /\ [][NextInvalidate]_vars

\* This step is a call of invalidate_fact, described by last_call'.
InvalidateStep ==
    /\ last_call'.kind = "invalidate_fact"
    /\ now' = now
    /\ last_call' # last_call \/ temporal_facts' # temporal_facts

\* The facts are a and b of one project and type, b is active, and the
\* latest call is invalidate_fact(a, b) by that project.
SupersededBy(a, b) ==
    /\ temporal_facts = {a, b} /\ a.id # b.id
    /\ a.project_id = b.project_id /\ a.fact_type = b.fact_type
    /\ b.valid_to = None
    /\ last_call = [kind |-> "invalidate_fact", project_id |-> a.project_id,
                    fact_id |-> a.id, superseded_by |-> Some(b.id)]

\* C13: invalidate_fact(id, s) turns the fact with that id of the caller's
\* project into the same row with valid_to = the current time and
\* superseded_by = s, whatever the two fields held, and leaves every other
\* row as it is; after add(a), add(b), invalidate(a, b) the active set of
\* the type is {b} and a has valid_to set and superseded_by = b.
C13_InvalidateEffect ==
    [][ /\ InvalidateStep =>
              temporal_facts' =
                  { IF f.id = last_call'.fact_id /\ f.project_id = last_call'.project_id
                    THEN TemporalFact(f.id, f.project_id, f.node_id, f.fact_type,
                                      f.content, f.valid_from, Some(now),
                                      last_call'.superseded_by, f.source_reference)
                    ELSE f : f \in temporal_facts }
        /\ \A a, b \in temporal_facts' :
              SupersededBy(a, b)' =>
                  /\ get_active_facts(temporal_facts', a.project_id, Some(a.fact_type)) = {b}
                  /\ IsSome(a.valid_to) /\ a.superseded_by = Some(b.id)
      ]_vars

\* Fact 1, added at time 0, has been invalidated one tick later in favour
\* of fact 2, which is the only active fact.
C13_Witness ==
    /\ now = TickSecs
    /\ \E a, b \in temporal_facts :
          /\ SupersededBy(a, b)
          /\ a.valid_from = 0 /\ a.valid_to = Some(TickSecs)
          /\ get_active_facts(temporal_facts, a.project_id, None) = {b}

----------------------------------------------------------------------------
(* Token accounting.  u64 and i64 are scaled to the widths I64_MAX gives:  *)
(* a u64 lies in 0..(2 * I64_MAX + 1), an i64 in -(I64_MAX + 1)..I64_MAX.  *)

\* Accountant::record_query: INSERT with the three u64 counts cast by
\* `as i64` (a value above i64::MAX wraps to a negative one) and
\* created_at = datetime('now').
record_query(rows, project_id, session_id, query_text, pointer_tokens, fetched_tokens, traditional_estimate, t) ==
    LET as_i64(u) == IF u > I64_MAX THEN u - (2 * I64_MAX + 2) ELSE u
    IN  Append(rows, [ id |-> Len(rows) + 1, project_id |-> project_id,
                       session_id |-> session_id, query_text |-> query_text,
                       pointer_tokens |-> as_i64(pointer_tokens),
                       fetched_tokens |-> as_i64(fetched_tokens),
                       traditional_est |-> as_i64(traditional_estimate),
                       created_at |-> t ])

\* A faulty aggregate that subtracts with wrap-around.
aggregate_wrapping(selected) ==
    { [ ok |-> TRUE,
        total_queries |-> Cardinality(selected),
        total_pointer_tokens |-> s.p,
        total_fetched_tokens |-> s.f,
        total_traditional_estimate |-> s.t,
        cumulative_savings_tokens |->
            (s.t - ((s.p + s.f) % (2 * I64_MAX + 2))) % (2 * I64_MAX + 2),
        cumulative_savings_pct |-> 0 ]
      : s \in { [ p |-> SumOver(selected, [r \in selected |-> r.pointer_tokens]),
                  f |-> SumOver(selected, [r \in selected |-> r.fetched_tokens]),
                  t |-> SumOver(selected, [r \in selected |-> r.traditional_est]) ] } }

\* The SELECT COUNT(*), COALESCE(SUM(..), 0) x 3 over the selected rows and
\* the row closure that builds CumulativeStats: the set of outcomes.  SUM
\* raises "integer overflow" when a partial sum leaves i64, which the scan
\* order decides (may_err); a sum outside i64, or a negative one read as
\* u64, is an Err in any order.  The percentage is rounded down to a whole
\* number.
aggregate(selected) ==
    LET cols == {"pointer_tokens", "fetched_tokens", "traditional_est"}
        part(col, sign) ==
            SumOver(selected, [r \in selected |->
                                  IF r[col] * sign > 0 THEN r[col] ELSE 0])
        saved(s) == IF s.t >= (s.p + s.f) % (2 * I64_MAX + 2)
                    THEN s.t - ((s.p + s.f) % (2 * I64_MAX + 2)) ELSE 0
        must_err(s) == \E c \in {s.p, s.f, s.t} : c < 0 \/ c > I64_MAX
        out(s) ==
            { [ok |-> FALSE] : x \in { z \in {1} : must_err(s) \/ s.may_err } }
            \cup
            { [ ok |-> TRUE,
                total_queries |-> Cardinality(selected),
                total_pointer_tokens |-> s.p,
                total_fetched_tokens |-> s.f,
                total_traditional_estimate |-> s.t,
                cumulative_savings_tokens |-> saved(s),
                cumulative_savings_pct |->
                    IF s.t > 0 THEN (saved(s) * 100) \div s.t ELSE 0 ]
              : x \in { z \in {1} : ~must_err(s) } }
    IN  UNION { out(s)
                : s \in { [ p |-> part("pointer_tokens", 1) + part("pointer_tokens", -1),
                            f |-> part("fetched_tokens", 1) + part("fetched_tokens", -1),
                            t |-> part("traditional_est", 1) + part("traditional_est", -1),
                            may_err |-> \E c \in cols :
                                           \/ part(c, 1) > I64_MAX
                                           \/ part(c, -1) < -(I64_MAX + 1) ] } }

\* Accountant::get_stats_since: the project's rows, of the last `since`
\* seconds if a duration is given; get_cumulative_stats is
\* get_stats_since(None).
get_stats_since(rows, project_id, since, t) ==
    aggregate({ r \in Range(rows) :
                  /\ r.project_id = project_id
                  /\ IsSome(since) => r.created_at >= t - Unwrap(since) })

\* Accountant::get_session_stats: the project's rows of the session.
get_session_stats(rows, project_id, session_id) ==
    aggregate({ r \in Range(rows) :
                  r.project_id = project_id /\ r.session_id = session_id })

\* A call of record_query by the accountant of a project and session.
RecordQuery(project_id, session_id, tokens) ==
    /\ Len(accounting) < MaxRecords
    /\ accounting' = record_query(accounting, project_id, session_id, <<"q">>,
                                  tokens[1], tokens[2], tokens[3], now)
    /\ UNCHANGED <<ingest_vars, dedup_vars, server_vars, search_vars, temporal_facts, foreign_keys>>

NextAccounting ==
    \/ \E p \in Projects, sid \in {"s1", "s2"} :
          \E tokens \in { <<1, 0, I64_MAX>>, <<2, 1, 1>>, <<1, 0, 0>>,
                          <<0, 0, 2 * I64_MAX + 1>> } :
              RecordQuery(p, sid, tokens)
    \/ Tick

SpecAccounting == InitFacts /\ [][NextAccounting]_vars

----------------------------------------------------------------------------
(* Claims about accounting (SpecAccounting) *)

Sessions == {"s1", "s2"}

\* The u64 that record_query was given for a stored count.
Recorded(v) == IF v < 0 THEN v + 2 * I64_MAX + 2 ELSE v

\* The count of the selected rows and the sums of the counts recorded in them.
Totals(selected) ==
    [ total_queries |-> Cardinality(selected),
      total_pointer_tokens |->
          SumOver(selected, [r \in selected |-> Recorded(r.pointer_tokens)]),
      total_fetched_tokens |->
          SumOver(selected, [r \in selected |-> Recorded(r.fetched_tokens)]),
      total_traditional_estimate |->
          SumOver(selected, [r \in selected |-> Recorded(r.traditional_est)]) ]

Agrees(o, totals) ==
    /\ o.ok
    /\ \A k \in DOMAIN totals : o[k] = totals[k]

\* C14: get_cumulative_stats returns the count and the token sums over all
\* rows of the project, get_session_stats over exactly the rows of the
\* caller's session, and since rows are never changed or removed no total
\* ever decreases.
C14_AccountingScope ==
    [][ \A p \in Projects :
          /\ \A o \in get_stats_since(accounting', p, None, now') :
                Agrees(o, Totals({ r \in Range(accounting') : r.project_id = p }))
          /\ \A sid \in Sessions :
                \A o \in get_session_stats(accounting', p, sid) :
                    Agrees(o, Totals({ r \in Range(accounting') :
                                         r.project_id = p /\ r.session_id = sid }))
          /\ \A o \in get_stats_since(accounting, p, None, now) :
                \A o2 \in get_stats_since(accounting', p, None, now') :
                    (o.ok /\ o2.ok) =>
                        \A k \in DOMAIN Totals({}) : o2[k] >= o[k]
          /\ SubSeq(accounting', 1, Len(accounting)) = accounting
      ]_vars

AllStats ==
    UNION ({ get_stats_since(accounting, p, since, now) :
               p \in Projects, since \in {None, Some(0), Some(TickSecs)} }
           \cup { get_session_stats(accounting, p, sid) : p \in Projects, sid \in Sessions })

\* C15: in every aggregate returned, the savings are
\* max(0, traditional - (pointer + fetched)), never negative, and the
\* percentage is 0 when the traditional total is 0.
C15_Savings ==
    \A o \in AllStats :
        o.ok =>
            /\ o.cumulative_savings_tokens >= 0
            /\ o.cumulative_savings_tokens =
                  IF o.total_traditional_estimate
                        >= o.total_pointer_tokens + o.total_fetched_tokens
                  THEN o.total_traditional_estimate
                          - (o.total_pointer_tokens + o.total_fetched_tokens)
                  ELSE 0
            /\ o.total_traditional_estimate = 0 => o.cumulative_savings_pct = 0

\* One returned aggregate has more actual tokens than its traditional
\* estimate, which is not 0, and another has a traditional total of 0 over
\* at least one row.
C15_Witness ==
    /\ \E o \in AllStats :
          /\ o.ok /\ o.total_traditional_estimate > 0
          /\ o.total_pointer_tokens + o.total_fetched_tokens > o.total_traditional_estimate
          /\ o.cumulative_savings_tokens = 0
    /\ \E o \in AllStats :
          o.ok /\ o.total_queries > 0 /\ o.total_traditional_estimate = 0

----------------------------------------------------------------------------
(* The graph API called directly.  The graphs of two projects share the    *)
(* tables.  Nodes and edges are passed as the caller builds them: a node   *)
(* or an edge carries its own project_id, which need not be the graph's,   *)
(* and an edge names its ends by id, which need not be ids of stored       *)
(* nodes.                                                                  *)

MaxEdges == 2

NodeIds == {1, 2}

\* KnowledgeGraph::get_neighbors: the rows of edges JOIN nodes, the node
\* being the one at the end of the edge that is not node_id, for the edges
\* of the caller's project that start or end at node_id.
get_neighbors(db, project_id, node_id) ==
    { [edge |-> edge_from_row(x[1]), node |-> node_from_row(x[2])] :
        x \in { y \in db.edges \X db.nodes :
            /\ y[1].source_id = node_id \/ y[1].target_id = node_id
            /\ y[1].project_id = project_id
            /\ y[2].id = IF y[1].source_id = node_id THEN y[1].target_id
                         ELSE y[1].source_id } }

\* graph.add_node(&node) on the graph of graph_project, for the node with
\* these fields.
AddNode(graph_project, id, project_id, node_type, summary) ==
    LET node == Node(id, project_id, <<"n">>, node_type, None, Some(id), Some(id + 1),
                     summary, None)
    IN
    /\ nodes' = add_node(Db, node).nodes
    /\ last_call' = [kind |-> "add_node", project_id |-> graph_project, node |-> node,
                     replaced |-> \E n \in nodes : n.id = node.id /\ node_from_row(n) # node]
    /\ UNCHANGED <<fs, edges, fts_content, file_hashes, uuid_next, last_run, quiet_runs,
                   search_cache, fetch_cache, now, pc, calls, dedup_vars, server_vars, fact_vars>>

\* graph.add_edge(&edge).  INSERT OR IGNORE does not ignore a foreign key
\* violation: with foreign keys enforced an edge one of whose ends is not
\* a stored node is an error and nothing is written.
AddEdge(id, project_id, source_id, target_id, edge_type) ==
    LET edge == Edge(id, project_id, source_id, target_id, edge_type, 1)
    IN
    /\ edges' = IF foreign_keys /\ \E end \in {edge.source_id, edge.target_id} :
                                     \A n \in nodes : n.id # end
                THEN edges
                ELSE add_edge(Db, edge).edges
    /\ UNCHANGED <<fs, nodes, fts_content, file_hashes, uuid_next, last_run, quiet_runs,
                   search_vars, dedup_vars, server_vars, fact_vars>>

InitGraph ==
    /\ IdleIngest /\ IdleDedup /\ IdleSearch /\ IdleServer
    /\ temporal_facts = {} /\ accounting = <<>> /\ foreign_keys \in BOOLEAN

\* Each graph adds nodes of its own project; edges of either project join
\* any two ids.
NextGraph ==
    \/ \E g \in Projects, id \in NodeIds :
          AddNode(g, id, g, "Function", None)
    \/ \E id \in 1..MaxEdges, p \in Projects, s \in NodeIds, t \in NodeIds,
          et \in {"Calls", "Contains"} :
          AddEdge(id, p, s, t, et)

SpecGraph == InitGraph /\ [][NextGraph]_vars

\* Nodes of either project, of two types and with or without a summary,
\* passed to the graph of either project.
NextNodes ==
    \E g \in Projects, id \in NodeIds, p \in Projects, t \in {"Function", "Concept"},
       summary \in {None, Some(<<"s">>)} :
       AddNode(g, id, p, t, summary)

SpecNodes == InitGraph /\ [][NextNodes]_vars

Triple(e) == <<e.source_id, e.target_id, e.edge_type>>

Incident(e, n) == e.source_id = n \/ e.target_id = n

OtherEnd(e, n) == IF e.source_id = n THEN e.target_id ELSE e.source_id

\* get_neighbors(n) on the graph of project g returns edge row e exactly
\* once, paired with the node at its other end.
ReturnedOnce(g, n, e) ==
    LET got == { r \in get_neighbors(Db, g, n) : r.edge.id = e.id }
    IN  /\ Cardinality(got) = 1
        /\ \A r \in got :
              /\ r.edge = edge_from_row(e)
              /\ r.node.id = OtherEnd(e, n)

\* An add_edge step either leaves the table as it is or adds one row whose
\* triple no row had.
AddsNewTripleOnly ==
    edges' # edges =>
        \E e \in edges' \ edges :
            /\ edges' = edges \cup {e}
            /\ \A d \in edges : Triple(d) # Triple(e)

\* C16: at most one edge exists per (source_id, target_id, edge_type);
\* adding an edge whose triple already exists leaves the store unchanged;
\* and get_neighbors(n), on the graph of the edges' project, returns each
\* edge incident to n exactly once, paired with the node at its other end,
\* whichever direction the edge has.
C16_EdgeUniqueness ==
    /\ [](/\ \A d, e \in edges : Triple(d) = Triple(e) => d = e
          /\ \A g \in Projects, n \in NodeIds :
                /\ \A e \in edges : (Incident(e, n) /\ e.project_id = g) => ReturnedOnce(g, n, e)
                /\ \A r \in get_neighbors(Db, g, n) :
                      \E e \in edges : Incident(e, n) /\ e.id = r.edge.id)
    /\ [][AddsNewTripleOnly]_vars

\* The latest add_node call, made on the graph of project g with node n.
LatestAddNode(g, n) ==
    /\ last_call.kind = "add_node"
    /\ last_call.project_id = g
    /\ last_call.node = n

AddedNodes == IF last_call.kind = "add_node" THEN {last_call.node} ELSE {}

OneRowPerId == \A m, n \in nodes : m.id = n.id => m = n

\* C17 as stated: after add_node(node) on a graph, get_node(node.id) on
\* that graph returns a node equal to node in every field, for any node;
\* a second add_node with the same id replaces the fields and there is
\* never a second node with that id.
C17_RoundTripAnyNode ==
    /\ OneRowPerId
    /\ \A g \in Projects, n \in AddedNodes :
          LatestAddNode(g, n) => get_node(Db, g, n.id) = Some(n)

\* C17: after add_node(node) on a graph, get_node(node.id) on that graph
\* returns a node equal to node in every field when node.project_id is
\* the graph's project, and returns nothing when it is not; a second
\* add_node with the same id replaces the fields, and there is never a
\* second node with that id.
C17_RoundTrip ==
    /\ OneRowPerId
    /\ \A g \in Projects, n \in AddedNodes :
          LatestAddNode(g, n) =>
              /\ get_node(Db, g, n.id) = IF n.project_id = g THEN Some(n) ELSE None
              /\ get_node(Db, n.project_id, n.id) = Some(n)

\* A node of the graph's project has replaced a different node with its id
\* and is read back, next to another stored node.
C17_Witness ==
    /\ last_call.kind = "add_node"
    /\ last_call.replaced
    /\ last_call.node.project_id = last_call.project_id
    /\ get_node(Db, last_call.project_id, last_call.node.id) = Some(last_call.node)
    /\ Cardinality(nodes) = 2

----------------------------------------------------------------------------
(* Failures inside ingest_directory, checked under SpecIngest.  A file     *)
(* fails when read_to_string rejects it: it cannot be opened, or its bytes *)
(* are not valid UTF-8.                                                    *)

\* The step is a call of ingest_directory (the directory is as before).
RunStep == fs' = fs /\ last_run'.ran

\* The crawled files that cannot be read during the latest run.
FailedDuring(run, fsys) == { p \in run.crawled : ~ReadOk(fsys, p) }

HasFileNode(ns, p) ==
    \E n \in ns : n.project_id = ProjectId /\ n.node_type = "file" /\ n.file_path = Some(p)

\* C18: when a crawled file fails at any step of ingest_directory (the
\* skip-pass hash check, ingest_file, or the hash update), the call still
\* returns Ok with that file counted in errors, every other crawled file
\* is skipped or indexed (its current hash is stored when the call
\* returns), and the stale-node sweep has run.
C18_ErrorIsolation ==
    [][RunStep =>
          /\ last_run'.ok
          /\ last_run'.report.errors = Cardinality(FailedDuring(last_run', fs))
          /\ last_run'.report.skipped + last_run'.report.indexed
                = last_run'.report.total_files - last_run'.report.errors
          /\ \A p \in last_run'.crawled \ FailedDuring(last_run', fs) :
                is_unchanged(Db', ProjectId, fs, p) = "unchanged"
          /\ get_all_file_paths(Db', ProjectId) \subseteq last_run'.crawled]_vars

\* The paths ingest_file was called on in a run, and those it failed on.
AttemptedPaths(run) == { run.results[i].path : i \in 1..Len(run.results) }

FailedPaths(run) ==
    { run.results[i].path : i \in { j \in 1..Len(run.results) : ~run.results[j].ok } }

HashRows(hashes, p) == { r \in hashes : r.file_path = p }

\* C19: when ingest_file fails for a path during ingest_directory, the
\* path's file-hash row is not written or changed by that run, and the next
\* ingest_directory run, the file being as it was, does not count it as
\* skipped but calls ingest_file on it again.
C19_RetryAfterFailure ==
    [][RunStep =>
          /\ \A p \in FailedPaths(last_run') :
                HashRows(file_hashes', p) = HashRows(file_hashes, p)
          /\ \A p \in FailedPaths(last_run) :
                fs[p] = Unreadable => p \in AttemptedPaths(last_run')]_vars

\* C20: a crawled file whose bytes are not valid UTF-8 is indexed by
\* ingest_directory: the call returns Ok, the file is counted in indexed
\* and not in errors, it has a file node and its file-hash is stored, and
\* the hash check of a later run on that file succeeds.
C20_NonUtf8Indexed ==
    [][RunStep =>
          \A p \in last_run'.crawled :
              fs[p] = Unreadable =>
                  /\ last_run'.ok
                  /\ p \notin FailedPaths(last_run')
                  /\ HasFileNode(nodes', p)
                  /\ IsSome(StoredHash(Db', ProjectId, p))
                  /\ is_unchanged(Db', ProjectId, fs, p) # "err"]_vars
----------------------------------------------------------------------------
(* Searches at the edge of the query language: the empty query, blanks,    *)
(* FTS operator words and the LIKE wildcards, on the store that the index  *)
(* verb builds.                                                            *)

BoundaryQueries ==
    { <<>>, <<" ">>, <<"A", "N", "D">>, <<"o", "r">>, <<"%", "%", "%">>,
      <<"_", "_">>, <<"a", "b">> }

NextBoundary ==
    \/ \E q \in BoundaryQueries, k \in 1..MaxTopK :
          calls < MaxSearches /\ SearchBegin("t1", q, k)
    \/ SearchFinish("t1")
    \/ ToolIndex

SpecBoundary == InitSearch /\ [][NextBoundary]_vars

\* A query that is empty, all whitespace, or made of FTS operator words only.
NoSearchWord(query) == \A i \in 1..Len(split_whitespace(query)) :
                           is_fts_operator(split_whitespace(query)[i])

\* C21: for a query that is empty, all whitespace or made only of the words
\* AND, OR, NOT, NEAR, each of L0, L1 and L2 returns no candidates and search
\* returns no pointers, whatever the store holds.
C21_EmptyQueryBoundary ==
    /\ \A q \in BoundaryQueries :
          NoSearchWord(q) =>
              /\ literal_search(Db, ProjectId, q) = { <<>> }
              /\ fts_search(Db, ProjectId, q) = { <<>> }
              /\ vector_search(Db, ProjectId, q) = { <<>> }
    /\ (last_call.kind = "search" /\ NoSearchWord(last_call.query))
          => last_call.response.pointers = <<>>

\* C22: every candidate of L0, L1 and L2, and every pointer relevance of a
\* search, has a score between 0 and 1 (0 and 1000 thousandths).
C22_ScoreRange ==
    /\ \A q \in BoundaryQueries :
          \A list \in literal_search(Db, ProjectId, q)
                        \cup fts_search(Db, ProjectId, q)
                        \cup vector_search(Db, ProjectId, q) :
              \A i \in 1..Len(list) : list[i].score \in 0..1000
    /\ last_call.kind = "search"
          => \A i \in 1..Len(last_call.response.pointers) :
                last_call.response.pointers[i].relevance \in 0..1000

----------------------------------------------------------------------------
(* Two projects in one store, both indexing the same directory.             *)

\* ingest_directory(root) through the pipeline of the given project.
IngestDirectoryAs(project_id) ==
    /\ calls < MaxCalls
    /\ \E r \in {ingest_directory(Db, project_id, fs)} :
        /\ r.db.uuid <= MaxUuid + 1
        /\ nodes' = r.db.nodes
        /\ edges' = r.db.edges
        /\ fts_content' = r.db.fts
        /\ file_hashes' = r.db.hashes
        /\ uuid_next' = r.db.uuid
        /\ last_run' = [ran |-> TRUE, ok |-> r.ok, report |-> r.report,
                        crawled |-> r.crawled, nodes_before |-> nodes,
                        results |-> r.results]
    /\ last_call' = [kind |-> "ingest", project_id |-> project_id]
    /\ calls' = calls + 1
    /\ UNCHANGED <<fs, quiet_runs, search_cache, fetch_cache, now, pc,
                   dedup_vars, server_vars, fact_vars>>

NextProjects ==
    \/ /\ \E c \in Contents(PathA) : WriteFile(PathA, c)
       /\ UNCHANGED <<dedup_vars, server_vars, search_vars, fact_vars>>
    \/ /\ RemoveFile(PathA)
       /\ UNCHANGED <<dedup_vars, server_vars, search_vars, fact_vars>>
    \/ \E p \in Projects : IngestDirectoryAs(p)

SpecProjects == InitIngest /\ [][NextProjects]_vars

\* What the reads of a project return: its nodes, the skip decision of its
\* ingest for every path, and the rows its searches are computed from.
ProjectReads(project_id) ==
    [ nodes  |-> get_all_nodes(Db, project_id),
      skip   |-> [p \in Range(AllPaths) |-> is_unchanged(Db, project_id, fs, p)],
      search |-> [q \in CacheQueries |->
                    << literal_search_by_name(Db, project_id, q),
                       { r \in fts_content : r.project_id = project_id } >>] ]

\* C25: no operation under one project changes the result of a read under
\* another project of the same store.
C25_ProjectIsolation ==
    [][ \A a \in Projects :
          (calls' = calls + 1 /\ last_call'.project_id # a)
              => ProjectReads(a)' = ProjectReads(a) ]_vars

----------------------------------------------------------------------------
(* What an ingest leaves in place (SpecIngest) *)

\* The nodes whose file path is in the crawled set.
LiveNodes(ns, crawled) ==
    { n \in ns : IsSome(n.file_path) /\ Unwrap(n.file_path) \in crawled }

\* C26: ingest_directory deletes a node only if its file path is absent from
\* the crawl of that call; every node whose file path was crawled, and
\* every edge between two such nodes, stays in the store; and
\* delete_nodes_for_file(p) leaves the nodes of every other path unchanged.
C26_LiveNodesSurvive ==
    /\ [](\A p \in Range(AllPaths) :
             { n \in delete_nodes_for_file(Db, ProjectId, p).nodes : n.file_path # Some(p) }
                = { n \in nodes : n.file_path # Some(p) })
    /\ [][ RunStep =>
            /\ \A n \in nodes \ nodes' :
                  IsSome(n.file_path) /\ Unwrap(n.file_path) \notin last_run'.crawled
            /\ LiveNodes(nodes, last_run'.crawled) \subseteq nodes'
            /\ \A e \in edges :
                  {e.source_id, e.target_id}
                      \subseteq { n.id : n \in LiveNodes(nodes, last_run'.crawled) }
                  => e \in edges' ]_vars

\* C26 witness: a run swept the nodes of a deleted file and left the file
\* node, the chunk node and the edge between them of a crawled file.
C26_Witness ==
    /\ last_run.ran /\ last_run.ok
    /\ \E n \in last_run.nodes_before \ nodes : TRUE
    /\ \E e \in edges : \E n, m \in LiveNodes(last_run.nodes_before, last_run.crawled) \cap nodes :
          e.source_id = n.id /\ e.target_id = m.id

----------------------------------------------------------------------------
(* Re-ingesting a markdown file whose headings repeat.                      *)

MaxChunkUuid == 12    \* ids handed out in one behaviour of SpecChunks

\* The contents of the file: one chunk; two chunks of the same name; the
\* same two chunks after a line was put before them; the second chunk
\* rewritten.
ChunkContents ==
    { TextFile(<<Heading(NameAb), Text(<<"x">>)>>),
      TextFile(<<Heading(NameAb), Text(<<"x">>), Heading(NameAb), Text(<<"z">>)>>),
      TextFile(<<Text(<<"y">>), Heading(NameAb), Text(<<"x">>), Heading(NameAb), Text(<<"z">>)>>),
      TextFile(<<Heading(NameAb), Text(<<"x">>), Heading(NameCd), Text(<<"z">>)>>) }

\* A call of ingest_directory(root), as IngestDirectory, in a behaviour that
\* hands out up to MaxChunkUuid ids.
IngestChunked ==
    \E r \in {ingest_directory(Db, ProjectId, fs)} :
        /\ r.db.uuid <= MaxChunkUuid + 1
        /\ nodes' = r.db.nodes
        /\ edges' = r.db.edges
        /\ fts_content' = r.db.fts
        /\ file_hashes' = r.db.hashes
        /\ uuid_next' = r.db.uuid
        /\ last_run' = [ran |-> TRUE, ok |-> r.ok, report |-> r.report,
                        crawled |-> r.crawled, nodes_before |-> nodes,
                        results |-> r.results]
        /\ quiet_runs' = IF r.ok THEN (IF quiet_runs < 2 THEN quiet_runs + 1 ELSE 2) ELSE 0
        /\ UNCHANGED fs

NextChunks ==
    /\ \/ \E c \in ChunkContents : WriteFile(PathA, c)
       \/ IngestChunked
    /\ UNCHANGED <<dedup_vars, server_vars, search_vars, fact_vars>>

SpecChunks == InitIngest /\ [][NextChunks]_vars

\* The chunks of a file content; none for a file never ingested.
ChunksOf(path, content) == IF IsSome(content) THEN chunk_file(path, Unwrap(content)) ELSE <<>>

\* The place of chunk i among the chunks of its name.
Ordinal(chunks, i) == Cardinality({ j \in 1..i : chunks[j].name = chunks[i].name })

\* The content chunk i of chunks had in the chunks prev: that of the chunk
\* of the same name at the same place among the chunks of that name.
PreviousContent(prev, chunks, i) ==
    LET same == { j \in 1..Len(prev) : prev[j].name = chunks[i].name
                                       /\ Ordinal(prev, j) = Ordinal(chunks, i) }
    IN  IF same = {} THEN None ELSE Some(prev[CHOOSE j \in same : TRUE].content)

\* The content the file had at its previous ingest: the one whose hash the
\* file-hash row holds.
PreviousFile(path) ==
    IF IsSome(StoredHash(Db, ProjectId, path))
    THEN Some(Unwrap(StoredHash(Db, ProjectId, path))[2]) ELSE None

\* C28: when a changed file is re-ingested, a chunk gets a new chunk node
\* (with FTS row, contains edge and chunk-hash update) if and only if its
\* content differs from the content it had at the previous ingest of the
\* file, also when several chunks of the file have the same name.
C28_ChunkDedup ==
    [][ (RunStep /\ IsSome(PreviousFile(PathA)) /\ ReadOk(fs, PathA)
           /\ PreviousFile(PathA) # Some(ReadLines(fs, PathA))
           /\ \E k \in 1..Len(last_run'.results) :
                 last_run'.results[k].path = PathA /\ last_run'.results[k].ok)
        => \A i \in 1..Len(ChunksOf(PathA, Some(ReadLines(fs, PathA)))) :
             LET chunks == ChunksOf(PathA, Some(ReadLines(fs, PathA)))
                 prev   == ChunksOf(PathA, PreviousFile(PathA))
                 fresh  == { n \in nodes' \ nodes :
                               /\ n.node_type = "document"
                               /\ n.name = chunks[i].name
                               /\ n.start_line = Some(chunks[i].start_line) }
             IN  /\ (fresh # {}) <=> (PreviousContent(prev, chunks, i) # Some(chunks[i].content))
                 /\ \A n \in fresh :
                       /\ \E r \in fts_content' : r.node_id = n.id
                       /\ \E e \in edges' : e.target_id = n.id /\ e.edge_type = "contains"
                       /\ StoredHash(Db', ProjectId, chunk_key(PathA, n.name))
                             = Some(compute_hash(chunks[i].content)) ]_vars

----------------------------------------------------------------------------
(* Eviction from the result cache (SpecCache) *)

\* The keys whose entries have reached the TTL at time t.
ExpiredKeys(cache, t) ==
    { k \in DOMAIN cache : t - cache[k].inserted_at >= CACHE_TTL_SECS }

\* The keys with the earliest insert time.
EarliestKeys(cache) ==
    { k \in DOMAIN cache : \A j \in DOMAIN cache :
                              cache[k].inserted_at <= cache[j].inserted_at }

\* C30: an insert into a full result cache first removes every expired
\* entry; if the cache is still full, exactly one entry goes, one with the
\* earliest insert time (when that is the entry of the inserted key, the
\* new entry takes its place); no entry younger than the TTL goes while an
\* expired entry exists; an insert into a cache that is not full removes
\* nothing; every entry that stays is unchanged.
C30_EvictionPolicy ==
    [][ \A t \in Threads :
          (pc[t] # Idle /\ pc'[t] = Idle) =>
            LET key     == pc[t].key
                full    == Cardinality(DOMAIN search_cache) >= CACHE_MAX_ENTRIES
                expired == ExpiredKeys(search_cache, now)
                gone    == DOMAIN search_cache \ DOMAIN search_cache'
            IN  /\ ~full => gone = {}
                /\ full => expired \ {key} \subseteq gone
                /\ (full /\ expired # {}) => gone \subseteq expired
                /\ (full /\ expired = {}) =>
                      \/ Cardinality(gone) = 1 /\ gone \subseteq EarliestKeys(search_cache)
                      \/ gone = {} /\ key \in EarliestKeys(search_cache)
                /\ \A k \in DOMAIN search_cache \ (gone \cup {key}) :
                      search_cache'[k] = search_cache[k]
                /\ search_cache'[key] = [response |-> pc[t].response, inserted_at |-> now]
      ]_vars

\* C30 witness: the entry of the latest search, inserted into the cache, has
\* been evicted from the full cache by the insert of another thread.
C30_Witness ==
    /\ last_call.kind = "search" /\ ~last_call.hit
    /\ \A t \in Threads : pc[t] = Idle
    /\ CacheKey(last_call.query, last_call.top_k) \notin DOMAIN search_cache
    /\ Cardinality(DOMAIN search_cache) = CACHE_MAX_ENTRIES
    /\ ExpiredKeys(search_cache, now) = {}

----------------------------------------------------------------------------
(* The stdio server at the grain of its database calls.  The threads of    *)
(* the process share one Connection behind one Mutex; every method of      *)
(* KnowledgeGraph and HashTracker takes the mutex on entry and holds it to *)
(* its return, so a method is one step unless it runs several statements,  *)
(* which are then one step each with conn held in between.  The main       *)
(* thread serves the tool calls one at a time; the auto-reindex thread     *)
(* calls ingest_directory on its own.  Inside an ingest_directory call the *)
(* ingest_file calls of par_iter run side by side.                         *)

MaxRuns == 2          \* ingest_directory calls begun in one behaviour

\* A faulty mutex that lets every thread in.
LockAlways(c) == TRUE

\* Mutex::lock returns once no thread holds the mutex.
Lock(c) == c = "free"

\* index_fts, first statement: DELETE FROM fts_content WHERE node_id = ?1.
index_fts_delete(db, node) == [db EXCEPT !.fts = { r \in @ : r.node_id # node.id }]

\* index_fts, second statement: INSERT INTO fts_content.
index_fts_insert(db, node, content) ==
    [db EXCEPT !.fts = @ \cup
        { [ node_id |-> node.id, project_id |-> node.project_id, name |-> node.name,
            content |-> content, file_path |-> node.file_path ] }]

\* delete_nodes_for_file, statement by statement.
delete_file_fts(db, project_id, path) ==
    [db EXCEPT !.fts = { r \in @ : r.node_id \notin NodeIdsOfFile(db, project_id, path) }]

delete_file_edges(db, project_id, path) ==
    [db EXCEPT !.edges = { e \in @ : /\ e.source_id \notin NodeIdsOfFile(db, project_id, path)
                                     /\ e.target_id \notin NodeIdsOfFile(db, project_id, path) }]

delete_file_nodes(db, project_id, path) ==
    [db EXCEPT !.nodes = { n \in @ : ~(n.file_path = Some(path) /\ n.project_id = project_id) }]

\* One ingest_file call of the map: where it stands, the content it read,
\* the id of its file node, the chunk it is at, that chunk's node id and
\* the count it will return.
Worker(step, content, file_id, k, chunk_id, created) ==
    [ step |-> step, content |-> content, file_id |-> file_id, k |-> k,
      chunk_id |-> chunk_id, created |-> created ]

NewWorker == Worker("read", <<>>, 0, 0, 0, 0)

Finished(w) == w.step \in {"ok", "err"}

\* The file node ingest_file builds from the content it read.
FileNodeOf(project_id, path, w) ==
    Node(w.file_id, project_id, path, "File", Some(path), Some(1), Some(Len(w.content)),
         None, Some(compute_hash(w.content)))

\* The chunk node ingest_file builds for the chunk it is at.
ChunkNodeOf(project_id, path, w) ==
    LET chunk == chunk_file(path, w.content)[w.k]
    IN  Node(w.chunk_id, project_id, chunk.name, chunk.node_type, Some(path),
             Some(chunk.start_line), Some(chunk.end_line), Some(chunk.summary), None)

\* The worker at the head of the loop over the chunks, for chunk k.
AtChunk(path, w, k) ==
    IF k > Len(chunk_file(path, w.content)) THEN [w EXCEPT !.step = "ok"]
    ELSE [w EXCEPT !.step = "chunk_check", !.k = k]

\* One step of ingest_file: [db, w], the store and the worker after it.
ingest_file_step(db, project_id, fsys, path, w) ==
    CASE w.step = "read" ->
           [ db |-> db,
             w  |-> IF ReadOk(fsys, path)
                    THEN [w EXCEPT !.step = "file_node", !.content = ReadLines(fsys, path)]
                    ELSE [w EXCEPT !.step = "err"] ]
      [] w.step = "file_node" ->
           LET w1 == [w EXCEPT !.step = "file_fts_delete", !.file_id = db.uuid, !.created = 1]
           IN  [ db |-> add_node([db EXCEPT !.uuid = @ + 1], FileNodeOf(project_id, path, w1)),
                 w  |-> w1 ]
      [] w.step = "file_fts_delete" ->
           [ db |-> index_fts_delete(db, FileNodeOf(project_id, path, w)),
             w  |-> [w EXCEPT !.step = "file_fts_insert"] ]
      [] w.step = "file_fts_insert" ->
           [ db |-> index_fts_insert(db, FileNodeOf(project_id, path, w), w.content),
             w  |-> AtChunk(path, w, 1) ]
      [] w.step = "chunk_check" ->
           LET chunk == chunk_file(path, w.content)[w.k]
           IN  [ db |-> db,
                 w  |-> IF is_chunk_unchanged(db, project_id, chunk_key(path, chunk.name),
                                              compute_hash(chunk.content))
                        THEN AtChunk(path, w, w.k + 1)
                        ELSE [w EXCEPT !.step = "chunk_node"] ]
      [] w.step = "chunk_node" ->
           LET w1 == [w EXCEPT !.step = "chunk_fts_delete", !.chunk_id = db.uuid]
           IN  [ db |-> add_node([db EXCEPT !.uuid = @ + 1], ChunkNodeOf(project_id, path, w1)),
                 w  |-> w1 ]
      [] w.step = "chunk_fts_delete" ->
           [ db |-> index_fts_delete(db, ChunkNodeOf(project_id, path, w)),
             w  |-> [w EXCEPT !.step = "chunk_fts_insert"] ]
      [] w.step = "chunk_fts_insert" ->
           [ db |-> index_fts_insert(db, ChunkNodeOf(project_id, path, w),
                                     chunk_file(path, w.content)[w.k].content),
             w  |-> [w EXCEPT !.step = "chunk_edge"] ]
      [] w.step = "chunk_edge" ->
           LET edge == Edge(db.uuid, project_id, w.file_id, w.chunk_id, "Contains", 1)
           IN  [ db |-> add_edge([db EXCEPT !.uuid = @ + 1], edge),
                 w  |-> [w EXCEPT !.step = "chunk_hash"] ]
      [] w.step = "chunk_hash" ->
           LET chunk == chunk_file(path, w.content)[w.k]
           IN  [ db |-> update_chunk_hash(db, project_id, chunk_key(path, chunk.name),
                                          compute_hash(chunk.content)),
                 w  |-> AtChunk(path, [w EXCEPT !.created = @ + 1], w.k + 1) ]

\* The steps of ingest_file that make no database call, those that run with
\* the mutex taken before and held after, and those that end such a hold.
NoDbStep(w) == w.step = "read"
TakesLock(w) == w.step \in {"file_fts_delete", "chunk_fts_delete"}
HoldsLock(w) == w.step \in {"file_fts_insert", "chunk_fts_insert"}

\* An ingest_directory call in progress: the phase it is in (the skip pass,
\* the map of ingest_file, the pass over the results, the sweep), the
\* crawled files, the index of the skip pass, to_ingest, report.skipped,
\* the ingest_file calls of the map, ingest_results, the index of the pass
\* over them, whether the sweep has read the stored paths, the stale paths
\* still to delete, and the delete_nodes_for_file call under way.
Run(at, files, i, to_ingest, skipped, work, results, j, listed, stale, del) ==
    [ at |-> at, files |-> files, i |-> i, to_ingest |-> to_ingest, skipped |-> skipped,
      work |-> work, results |-> results, j |-> j, listed |-> listed, stale |-> stale,
      del |-> del ]

\* ingest_results, once every ingest_file call of the map has returned.
ResultsOf(r) ==
    [n \in 1..Len(r.to_ingest) |->
        [ path    |-> r.to_ingest[n],
          ok      |-> r.work[r.to_ingest[n]].step = "ok",
          count   |-> r.work[r.to_ingest[n]].created,
          file_id |-> r.work[r.to_ingest[n]].file_id,
          content |-> r.work[r.to_ingest[n]].content ]]

\* A faulty collect() that does not wait for the ingest_file calls.
MapDoneEarly(r) == TRUE

\* par_iter().map().collect() returns when every ingest_file call has.
MapDone(r) == \A p \in DOMAIN r.work : Finished(r.work[p])

\* The call moved on to the phase its control flow is at: the map begins
\* when the skip pass has seen every file, the pass over the results when
\* the map has returned, the sweep when that pass is over.
Settle(r) ==
    LET r1 == IF r.at = "skip" /\ r.i > Len(r.files)
              THEN [r EXCEPT !.at = "ingest",
                             !.work = [p \in Range(r.to_ingest) |-> NewWorker]]
              ELSE r
        r2 == IF r1.at = "ingest" /\ MapDone(r1)
              THEN [r1 EXCEPT !.at = "aggregate", !.results = ResultsOf(r1)]
              ELSE r1
    IN  IF r2.at = "aggregate" /\ r2.j > Len(r2.results)
        THEN [r2 EXCEPT !.at = "sweep"]
        ELSE r2

\* What a returned ingest_directory call leaves to see.
IngestCall(t, ok, r, failed) ==
    [ kind |-> "ingest", thread |-> t, ok |-> ok, failed |-> failed,
      crawled |-> Range(r.files), skipped |-> r.skipped, results |-> r.results ]

\* tool_index on the main thread, or the loop body of spawn_auto_reindex:
\* ingest_directory is entered and the directory crawled.
IngestBegin(t) ==
    /\ runs[t] = Idle
    /\ calls < MaxRuns
    /\ runs' = [runs EXCEPT ![t] =
                  Settle(Run("skip", crawl_directory(fs), 1, <<>>, 0, <<>>, <<>>, 1,
                             FALSE, {}, None))]
    /\ calls' = calls + 1
    /\ UNCHANGED <<ingest_vars, dedup_vars, search_cache, fetch_cache, now, pc, last_call,
                   fact_vars, conn>>

\* One turn of the skip pass: is_unchanged(path)?
SkipPass(t) ==
    /\ runs[t] # Idle
    /\ runs[t].at = "skip"
    /\ Lock(conn)
    /\ LET r == runs[t]
           p == r.files[r.i]
           c == is_unchanged(Db, ProjectId, fs, p)
       IN  IF c = "err"
           THEN /\ runs' = [runs EXCEPT ![t] = Idle]
                /\ last_call' = IngestCall(t, FALSE, r, Some(p))
           ELSE /\ runs' = [runs EXCEPT ![t] =
                              Settle([r EXCEPT !.i = @ + 1,
                                               !.skipped = IF c = "unchanged" THEN @ + 1 ELSE @,
                                               !.to_ingest = IF c = "changed"
                                                             THEN Append(@, p) ELSE @])]
                /\ UNCHANGED last_call
    /\ UNCHANGED <<ingest_vars, dedup_vars, search_cache, fetch_cache, now, pc, calls,
                   fact_vars, conn>>

\* One step of the ingest_file call on path p.
IngestFileStep(t, p) ==
    /\ runs[t] # Idle
    /\ runs[t].at = "ingest"
    /\ p \in DOMAIN runs[t].work
    /\ ~Finished(runs[t].work[p])
    /\ NoDbStep(runs[t].work[p]) \/ HoldsLock(runs[t].work[p]) \/ Lock(conn)
    /\ \E s \in { ingest_file_step(Db, ProjectId, fs, p, runs[t].work[p]) } :
          /\ nodes' = s.db.nodes /\ edges' = s.db.edges /\ fts_content' = s.db.fts
          /\ file_hashes' = s.db.hashes /\ uuid_next' = s.db.uuid
          /\ runs' = [runs EXCEPT ![t] = Settle([runs[t] EXCEPT !.work[p] = s.w])]
    /\ conn' = IF TakesLock(runs[t].work[p]) THEN t
               ELSE IF HoldsLock(runs[t].work[p]) THEN "free" ELSE conn
    /\ UNCHANGED <<fs, last_run, quiet_runs, dedup_vars, search_vars, fact_vars>>

\* One turn of the pass over ingest_results: the counts, and for an Ok
\* result update_hash(path)?, which reads the file again.
AggregateStep(t) ==
    /\ runs[t] # Idle
    /\ runs[t].at = "aggregate"
    /\ LET r   == runs[t]
           res == r.results[r.j]
       IN  IF res.ok /\ ~ReadOk(fs, res.path)
           THEN /\ runs' = [runs EXCEPT ![t] = Idle]
                /\ last_call' = IngestCall(t, FALSE, r, Some(res.path))
                /\ UNCHANGED file_hashes
           ELSE /\ res.ok => Lock(conn)
                /\ file_hashes' = IF res.ok
                                  THEN update_hash(Db, ProjectId, fs, res.path).hashes
                                  ELSE file_hashes
                /\ runs' = [runs EXCEPT ![t] = Settle([r EXCEPT !.j = @ + 1])]
                /\ UNCHANGED last_call
    /\ UNCHANGED <<fs, nodes, edges, fts_content, uuid_next, last_run, quiet_runs,
                   dedup_vars, search_cache, fetch_cache, now, pc, calls, fact_vars, conn>>

\* One step of cleanup_stale_nodes: get_all_file_paths, or one statement of
\* a delete_nodes_for_file call on a stale path.
SweepStep(t) ==
    /\ runs[t] # Idle
    /\ runs[t].at = "sweep"
    /\ ~runs[t].listed \/ runs[t].stale # {}
    /\ IsSome(runs[t].del) \/ Lock(conn)
    /\ LET r == runs[t]
       IN  IF ~r.listed
           THEN /\ runs' = [runs EXCEPT ![t] =
                              [r EXCEPT !.listed = TRUE,
                                        !.stale = get_all_file_paths(Db, ProjectId)
                                                     \ Range(r.files)]]
                /\ UNCHANGED <<nodes, edges, fts_content, conn>>
           ELSE IF ~IsSome(r.del)
           THEN \E q \in r.stale :
                /\ fts_content' = delete_file_fts(Db, ProjectId, q).fts
                /\ runs' = [runs EXCEPT ![t] = [r EXCEPT !.del = Some(<<q, 2>>)]]
                /\ conn' = t
                /\ UNCHANGED <<nodes, edges>>
           ELSE IF Unwrap(r.del)[2] = 2
           THEN /\ edges' = delete_file_edges(Db, ProjectId, Unwrap(r.del)[1]).edges
                /\ runs' = [runs EXCEPT ![t] = [r EXCEPT !.del = Some(<<Unwrap(r.del)[1], 3>>)]]
                /\ UNCHANGED <<nodes, fts_content, conn>>
           ELSE /\ nodes' = delete_file_nodes(Db, ProjectId, Unwrap(r.del)[1]).nodes
                /\ runs' = [runs EXCEPT ![t] =
                              [r EXCEPT !.del = None, !.stale = @ \ {Unwrap(r.del)[1]}]]
                /\ conn' = "free"
                /\ UNCHANGED <<edges, fts_content>>
    /\ UNCHANGED <<fs, file_hashes, uuid_next, last_run, quiet_runs, dedup_vars,
                   search_vars, fact_vars>>

\* ingest_directory returns Ok(report); tool_index then clears the result
\* cache.
IngestReturn(t) ==
    /\ runs[t] # Idle
    /\ runs[t].at = "sweep"
    /\ runs[t].listed /\ runs[t].stale = {}
    /\ runs' = [runs EXCEPT ![t] = Idle]
    /\ last_call' = IngestCall(t, TRUE, runs[t], None)
    /\ search_cache' = IF t = "main" THEN invalidate_search_cache(search_cache)
                       ELSE search_cache
    /\ UNCHANGED <<ingest_vars, dedup_vars, fetch_cache, now, pc, calls, fact_vars, conn>>

\* A read of the store by a tool call on the main thread (the queries of
\* search, get_node of fetch): what it sees, and who held the connection.
Read ==
    /\ runs["main"] = Idle
    /\ Lock(conn)
    /\ last_call' = [ kind |-> "read", holder |-> conn,
                      nodes |-> { n.id : n \in nodes },
                      fts   |-> { r.node_id : r \in fts_content },
                      edges |-> { e.id : e \in edges } ]
    /\ UNCHANGED <<ingest_vars, dedup_vars, search_cache, fetch_cache, now, pc, calls,
                   fact_vars, server_vars>>

\* The directory of the server specifications: one markdown file with one
\* heading.
ServerText == TextFile(<<Heading(NameAb), Text(<<"x">>)>>)
ServerText2 == TextFile(<<Heading(NameAb), Text(<<"y">>)>>)

InitServer ==
    /\ fs = [p \in Range(AllPaths) |-> IF p = PathA THEN ServerText ELSE Absent]
    /\ nodes = {} /\ edges = {} /\ fts_content = {} /\ file_hashes = {}
    /\ uuid_next = 1 /\ last_run = NoRun /\ quiet_runs = 0
    /\ IdleDedup /\ IdleSearch /\ IdleServer /\ IdleFacts

\* The environment of the server: the file is rewritten or removed.
ServerEnv ==
    /\ \/ \E c \in {ServerText, ServerText2} : WriteFile(PathA, c)
       \/ RemoveFile(PathA)
    /\ UNCHANGED <<dedup_vars, server_vars, search_vars, fact_vars>>

NextServer ==
    \/ \E t \in ServerThreads : IngestBegin(t)
    \/ \E t \in ServerThreads : SkipPass(t)
    \/ \E t \in ServerThreads : IngestFileStep(t, PathA)
    \/ \E t \in ServerThreads : AggregateStep(t)
    \/ \E t \in ServerThreads : SweepStep(t)
    \/ \E t \in ServerThreads : IngestReturn(t)
    \/ Read
    \/ ServerEnv

SpecServer == InitServer /\ [][NextServer]_vars

\* The steps of the ingest_directory call of thread t.
ThreadStep(t) ==
    \/ SkipPass(t)
    \/ IngestFileStep(t, PathA)
    \/ AggregateStep(t)
    \/ SweepStep(t)
    \/ IngestReturn(t)

\* Thread t is between the statements of an index_fts call or of a
\* delete_nodes_for_file call.
InsideUpdate(t) ==
    /\ runs[t] # Idle
    /\ \/ runs[t].at = "ingest" /\ \E p \in DOMAIN runs[t].work : HoldsLock(runs[t].work[p])
       \/ IsSome(runs[t].del)

\* C23: while ingest_directory runs on one thread and reads of the store
\* run on another, no call deadlocks (a call in progress can take a step, or
\* waits for a thread that can), a read waits only for such a thread, an
\* ingest_directory call fails only when a file could not be read, and no
\* read is made while a thread is between the two statements of index_fts
\* or among the three of delete_nodes_for_file.
C23_ConcurrentReads ==
    /\ [](\A t \in ServerThreads :
            runs[t] # Idle =>
               \/ ENABLED ThreadStep(t)
               \/ \E u \in ServerThreads \ {t} : conn = u /\ ENABLED ThreadStep(u))
    /\ [](runs["main"] = Idle =>
               \/ Lock(conn)
               \/ conn = "auto" /\ ENABLED ThreadStep("auto"))
    /\ [][\A t \in ServerThreads :
            (runs[t] # Idle /\ runs'[t] = Idle /\ ~last_call'.ok)
               => /\ IsSome(last_call'.failed)
                  /\ ~ReadOk(fs, Unwrap(last_call'.failed))]_vars
    /\ [][(last_call' # last_call /\ last_call'.kind = "read")
               => /\ \A t \in ServerThreads : ~InsideUpdate(t)
                  /\ last_call'.holder = "free"
                  /\ last_call'.nodes = { n.id : n \in nodes }
                  /\ last_call'.fts = { r.node_id : r \in fts_content }
                  /\ last_call'.edges = { e.id : e \in edges }]_vars

\* A read made while the other thread's ingest_file is about to call
\* index_fts for a chunk node: the read saw the node and no row of
\* fts_content for it.
C23_Witness ==
    /\ last_call.kind = "read"
    /\ runs["auto"] # Idle
    /\ runs["auto"].at = "ingest"
    /\ runs["auto"].work[PathA].step = "chunk_fts_delete"
    /\ runs["auto"].work[PathA].chunk_id \in last_call.nodes
    /\ runs["auto"].work[PathA].chunk_id \notin last_call.fts

\* C24: at no time are two ingest_directory calls in progress on the store:
\* the call of the auto-reindex thread and the call of hermes_index on the
\* main thread do not overlap.
C24_NoConcurrentIngests == ~(runs["main"] # Idle /\ runs["auto"] # Idle)

\* One ingest_directory call at a time over a directory of two files, which
\* are rewritten and removed while the call runs.
InitPipeline ==
    /\ fs = [p \in Range(AllPaths) |->
               IF p = PathA THEN ServerText
               ELSE IF p = PathB THEN TextFile(<<Text(<<"x">>)>>) ELSE Absent]
    /\ nodes = {} /\ edges = {} /\ fts_content = {} /\ file_hashes = {}
    /\ uuid_next = 1 /\ last_run = NoRun /\ quiet_runs = 0
    /\ IdleDedup /\ IdleSearch /\ IdleServer /\ IdleFacts

PipelineEnv ==
    /\ \/ \E c \in {ServerText, ServerText2} : WriteFile(PathA, c)
       \/ WriteFile(PathB, TextFile(<<Text(<<"x">>)>>))
       \/ RemoveFile(PathB)
    /\ UNCHANGED <<dedup_vars, server_vars, search_vars, fact_vars>>

NextPipeline ==
    \/ IngestBegin("main")
    \/ SkipPass("main")
    \/ \E p \in {PathA, PathB} : IngestFileStep("main", p)
    \/ AggregateStep("main")
    \/ SweepStep("main")
    \/ IngestReturn("main")
    \/ PipelineEnv

SpecPipeline == InitPipeline /\ [][NextPipeline]_vars

\* The row of file_hashes stored under the path itself.
FileHashRow(hashes, path) == { r \in hashes : r.file_path = path }

C29_HashOfIndexedContent ==
    [][(runs["main"] # Idle /\ runs'["main"] = Idle /\ last_call'.ok)
         => \A n \in 1..Len(runs["main"].results) :
               runs["main"].results[n].ok
                 => /\ StoredHash(Db, ProjectId, runs["main"].results[n].path)
                          = Some(compute_hash(runs["main"].results[n].content))
                    /\ \E m \in nodes :
                          /\ m.id = runs["main"].results[n].file_id
                          /\ m.content_hash = StoredHash(Db, ProjectId, m.name)]_vars


----------------------------------------------------------------------------
(* The strategies of fts_search, on the store of a markdown file ingested  *)
(* again after it was rewritten.                                           *)

MaxFtsUuid == 6

\* The words fts_search keeps of a query.
QueryWords(query) ==
    Truncate(SelectSeq(split_whitespace(query), LAMBDA w : ~is_fts_operator(w)),
             MAX_QUERY_WORDS)

\* The rows KnowledgeGraph::fts_search returns for a MATCH of these rows:
\* those of the project whose node exists.
MatchedRows(db, project_id, rows) ==
    { r \in rows : r.project_id = project_id /\ \E n \in db.nodes : n.id = r.node_id }

\* The rows matching "w1 w2 ..", "w1"* AND "w2"* .., and "w1" OR "w2" ...
PhraseRows(db, project_id, words) ==
    MatchedRows(db, project_id, { r \in db.fts : RowHasPhrase(r, WordsTokens(words), FALSE) })

AndRows(db, project_id, words) ==
    MatchedRows(db, project_id,
        { r \in db.fts : \A i \in 1..Len(words) : RowHasPhrase(r, FtsTokens(words[i]), TRUE) })

OrRows(db, project_id, words) ==
    MatchedRows(db, project_id,
        { r \in db.fts : \E i \in 1..Len(words) : RowHasPhrase(r, FtsTokens(words[i]), FALSE) })

\* fts::fts_search seen as the queries it sends: the strategies it runs, in
\* order.
fts_strategies(db, project_id, query) ==
    LET words == QueryWords(query)
    IN  IF words = <<>> THEN <<>>
        ELSE IF Len(words) = 1 THEN <<"phrase">>
        ELSE IF Cardinality(PhraseRows(db, project_id, words)) >= STRATEGY_MIN_RESULTS
        THEN <<"phrase">>
        ELSE IF Cardinality(AndRows(db, project_id, words)) >= STRATEGY_MIN_RESULTS
        THEN <<"phrase", "and">>
        ELSE <<"phrase", "and", "or">>

FtsQueries ==
    { <<"a","b">>, <<"A","N","D"," ","a","b">>, <<"a","b"," ","x">>, <<"x"," ","a","b">>,
      <<"a","b"," ","z">>, <<"q"," ","O","R"," ","a","b"," ","z">> }

\* A call of ingest_directory(root), as IngestDirectory, in a behaviour that
\* hands out up to MaxFtsUuid ids.
IngestFts ==
    \E r \in {ingest_directory(Db, ProjectId, fs)} :
        /\ r.db.uuid <= MaxFtsUuid + 1
        /\ nodes' = r.db.nodes
        /\ edges' = r.db.edges
        /\ fts_content' = r.db.fts
        /\ file_hashes' = r.db.hashes
        /\ uuid_next' = r.db.uuid
        /\ last_run' = [ran |-> TRUE, ok |-> r.ok, report |-> r.report,
                        crawled |-> r.crawled, nodes_before |-> nodes,
                        results |-> r.results]
        /\ quiet_runs' = IF r.ok THEN (IF quiet_runs < 2 THEN quiet_runs + 1 ELSE 2) ELSE 0
        /\ UNCHANGED <<fs, dedup_vars, server_vars, search_vars, fact_vars>>

\* A call of fts::fts_search(graph, query): the strategies run and the ids
\* of the list returned, in each order it can come back in.
FtsSearch(query) ==
    /\ last_call' = [ kind |-> "fts", query |-> query,
                      ran |-> fts_strategies(Db, ProjectId, query),
                      found |-> { [i \in 1..Len(l) |-> l[i].node.id] :
                                    l \in fts_search(Db, ProjectId, query) } ]
    /\ UNCHANGED <<ingest_vars, dedup_vars, server_vars, search_cache, fetch_cache, now, pc,
                   calls, fact_vars>>

NextFts ==
    \/ \E c \in ChunkContents : WriteFile(PathA, c)
                                 /\ UNCHANGED <<dedup_vars, server_vars, search_vars, fact_vars>>
    \/ IngestFts
    \/ \E q \in FtsQueries : FtsSearch(q)

SpecFts == InitIngest /\ [][NextFts]_vars

\* C31: for a query of two or more kept words fts_search runs the phrase
\* query first, the AND-of-prefixes query only if the phrase query returned
\* fewer than 3 rows, the OR query only if the AND query also returned
\* fewer than 3; the list returned holds exactly the rows of the last
\* strategy run; a query of one kept word runs the phrase query alone.
C31_StrategyCascade ==
    [][(last_call' # last_call /\ last_call'.kind = "fts") =>
         LET words == QueryWords(last_call'.query)
             ran   == last_call'.ran
             p     == PhraseRows(Db, ProjectId, words)
             a     == AndRows(Db, ProjectId, words)
             o     == OrRows(Db, ProjectId, words)
             last  == IF ran[Len(ran)] = "phrase" THEN p
                      ELSE IF ran[Len(ran)] = "and" THEN a ELSE o
         IN  /\ Len(words) = 1 => ran = <<"phrase">>
             /\ Len(words) >= 1
                  => /\ ran # <<>> /\ ran[1] = "phrase"
                     /\ ran \in { <<"phrase">>, <<"phrase", "and">>, <<"phrase", "and", "or">> }
                     /\ last_call'.found # {}
                     /\ \A l \in last_call'.found :
                           /\ Range(l) = { r.node_id : r \in last }
                           /\ Len(l) = Cardinality(last)
             /\ Len(words) >= 2
                  => /\ (Len(ran) >= 2 <=> Cardinality(p) < 3)
                     /\ (Len(ran) = 3 <=> Cardinality(p) < 3 /\ Cardinality(a) < 3)]_vars

\* Each way through the cascade was taken: a call that stopped at the AND
\* query with three rows, the phrase query having returned one.
C31_Witness ==
    /\ last_call.kind = "fts"
    /\ last_call.query = <<"x"," ","a","b">>
    /\ last_call.ran = <<"phrase", "and">>
    /\ \E l \in last_call.found : Len(l) = 3
    /\ Cardinality(PhraseRows(Db, ProjectId, QueryWords(last_call.query))) = 1


----------------------------------------------------------------------------
(* Fetch of nodes whose line range was given by the caller of add_node,    *)
(* over a file that is rewritten between fetches.                          *)

MaxFetchNodes == 1
MaxFetches == 3

FetchStarts == { None, Some(0), Some(1), Some(3) }
FetchEnds == { None, Some(0), Some(1), Some(2), Some(5), Some(-1) }

FetchTexts ==
    { TextFile(<<Text(<<"x">>), Text(<<"y">>)>>),
      TextFile(<<Text(<<"z">>)>>) }

InitFetch ==
    /\ fs = [p \in Range(AllPaths) |->
               IF p = PathA THEN TextFile(<<Text(<<"x">>), Text(<<"y">>)>>) ELSE Absent]
    /\ nodes = {} /\ edges = {} /\ fts_content = {} /\ file_hashes = {}
    /\ uuid_next = 1 /\ last_run = NoRun /\ quiet_runs = 0
    /\ IdleDedup /\ IdleSearch /\ IdleServer /\ IdleFacts

\* add_node of a node built with NodeBuilder::lines(start, end) on the file.
AddLineNode(start, end) ==
    /\ uuid_next <= MaxFetchNodes
    /\ nodes' = add_node(Db, Node(uuid_next, ProjectId, NameAb, "Function", Some(PathA),
                                  start, end, None, None)).nodes
    /\ uuid_next' = uuid_next + 1
    /\ UNCHANGED <<fs, edges, fts_content, file_hashes, last_run, quiet_runs,
                   dedup_vars, server_vars, search_vars, fact_vars>>

NextFetch ==
    \/ \E s \in FetchStarts, e \in FetchEnds : AddLineNode(s, e)
    \/ \E c \in FetchTexts :
          WriteFile(PathA, c) /\ UNCHANGED <<dedup_vars, server_vars, search_vars, fact_vars>>
    \/ \E id \in 1..(MaxFetchNodes + 1) : calls < MaxFetches /\ Fetch(id)

SpecFetch == InitFetch /\ [][NextFetch]_vars

\* Lines start..end of a file, 1-based and inclusive, clamped to the file.
LineRange(lines, start, end) ==
    SubSeq(lines, IF start < 1 THEN 1 ELSE start, IF end > Len(lines) THEN Len(lines) ELSE end)

\* C32: fetch of a node of the store whose file can be read returns a
\* response, its content the lines start..end of the file, clamped (empty
\* when the range lies past the end or start > end), or the whole file when
\* end_line is 0 or absent; fetch of an id not in the store returns None.
C32_FetchExtraction ==
    [][(calls' = calls + 1 /\ last_call'.kind = "fetch") =>
         LET n == get_node(Db, ProjectId, last_call'.pointer_id)
         IN  /\ ~IsSome(n) => ~last_call'.found
             /\ (IsSome(n) /\ ReadOk(fs, PathA)) =>
                  LET start == IF IsSome(Unwrap(n).start_line)
                               THEN Unwrap(Unwrap(n).start_line) ELSE 1
                      end   == IF IsSome(Unwrap(n).end_line)
                               THEN Unwrap(Unwrap(n).end_line) ELSE 0
                  IN  /\ last_call'.found
                      /\ last_call'.content.kind = "text"
                      /\ last_call'.content.lines =
                            IF end = 0 THEN ReadLines(fs, PathA)
                            ELSE LineRange(ReadLines(fs, PathA), start, end)]_vars


----------------------------------------------------------------------------
(* The crawl of a root that holds a subdirectory.  In the specifications   *)
(* of this part fs also maps the two directories, to Dir or to Denied (a   *)
(* directory whose listing fails).                                         *)

Root == <<"/">>
DirS == <<"/", "s">>
PathD == <<"/", "s", "/", "d", ".", "m", "d">>

Dir    == [kind |-> "dir", lines |-> <<>>]
Denied == [kind |-> "denied", lines |-> <<>>]

\* Path::is_dir
is_dir(fsys, path) == fsys[path].kind \in {"dir", "denied"}

\* The entries of the directories, in the order files.sort() leaves them.
Entries(dir) ==
    IF dir = Root THEN <<PathA, PathB, PathC, DirS>>
    ELSE IF dir = DirS THEN <<PathD>> ELSE <<>>

\* crawl_recursive(dir, files) from entry i of the listing on: [ok, files].
\* read_dir(dir)? and crawl_recursive(&path, files)? return the Err.
RECURSIVE crawl_recursive(_, _, _, _)
crawl_recursive(fsys, dir, i, files) ==
    IF ~is_dir(fsys, dir) THEN [ok |-> TRUE, files |-> files]
    ELSE IF fsys[dir].kind = "denied" THEN [ok |-> FALSE, files |-> files]
    ELSE IF i > Len(Entries(dir)) THEN [ok |-> TRUE, files |-> files]
    ELSE LET path == Entries(dir)[i]
         IN  IF fsys[path].kind = "absent"
             THEN crawl_recursive(fsys, dir, i + 1, files)
             ELSE IF is_dir(fsys, path)
             THEN IF crawl_recursive(fsys, path, 1, files).ok
                  THEN crawl_recursive(fsys, dir, i + 1,
                                       crawl_recursive(fsys, path, 1, files).files)
                  ELSE [ok |-> FALSE, files |-> files]
             ELSE crawl_recursive(fsys, dir, i + 1,
                     IF is_supported_file(path) THEN Append(files, path) ELSE files)

\* crawler::crawl_directory(root): [ok, files].
crawl_tree(fsys) == crawl_recursive(fsys, Root, 1, <<>>)

\* IngestionPipeline::ingest_directory(root): crawl_directory(dir_path)?
\* and the rest.
ingest_tree(db, project_id, fsys) ==
    IF ~crawl_tree(fsys).ok
    THEN [ok |-> FALSE, db |-> db, report |-> EmptyReport, crawled |-> {}, results |-> <<>>]
    ELSE ingest_files(db, project_id, fsys, crawl_tree(fsys).files)

InitCrawl ==
    /\ fs = [p \in Range(AllPaths) \cup {Root, DirS, PathD} |->
               IF p \in {Root, DirS} THEN Dir
               ELSE IF p \in {PathA, PathD} THEN ServerText ELSE Absent]
    /\ nodes = {} /\ edges = {} /\ fts_content = {} /\ file_hashes = {}
    /\ uuid_next = 1 /\ last_run = NoRun /\ quiet_runs = 0
    /\ IdleDedup /\ IdleSearch /\ IdleServer /\ IdleFacts

\* The permissions of a directory are changed.
Chmod(dir, d) ==
    /\ fs[dir] # d
    /\ fs' = [fs EXCEPT ![dir] = d]
    /\ quiet_runs' = 0
    /\ UNCHANGED <<nodes, edges, fts_content, file_hashes, uuid_next, last_run>>

\* A call of ingest_directory(root) on the project's store.
IngestTree ==
    \E r \in {ingest_tree(Db, ProjectId, fs)} :
        /\ r.db.uuid <= MaxUuid + 1
        /\ nodes' = r.db.nodes
        /\ edges' = r.db.edges
        /\ fts_content' = r.db.fts
        /\ file_hashes' = r.db.hashes
        /\ uuid_next' = r.db.uuid
        /\ last_run' = [ran |-> TRUE, ok |-> r.ok, report |-> r.report,
                        crawled |-> r.crawled, nodes_before |-> nodes,
                        results |-> r.results]
        /\ quiet_runs' = IF r.ok THEN (IF quiet_runs < 2 THEN quiet_runs + 1 ELSE 2) ELSE 0
        /\ UNCHANGED fs

NextCrawl ==
    /\ \/ \E p \in {PathA, PathB, PathD} : \E c \in {ServerText, ServerText2} : WriteFile(p, c)
       \/ \E p \in {PathA, PathB, PathD} : RemoveFile(p)
       \/ \E d \in {Dir, Denied} : Chmod(DirS, d)
       \/ IngestTree
    /\ UNCHANGED <<dedup_vars, server_vars, search_vars, fact_vars>>

SpecCrawl == InitCrawl /\ [][NextCrawl]_vars

\* C33: when the listing of the subdirectory fails during the crawl of
\* ingest_directory(root), the call goes on with every supported file
\* outside that subdirectory: it returns Ok and these are the files it
\* crawled.
C33_CrawlPrunesSubtree ==
    [][(RunStep /\ fs[DirS] = Denied)
          => /\ last_run'.ok
             /\ last_run'.crawled = { p \in {PathA, PathB} : fs[p].kind # "absent" }
             /\ \A p \in last_run'.crawled : HasFileNode(nodes', p)]_vars


----------------------------------------------------------------------------
(* The stdio server with its auto-reindex thread: searches and hermes_index *)
(* on the main thread, the loop body of spawn_auto_reindex on the other,    *)
(* each ingest_directory call taken as one step.  The main thread serves    *)
(* one tool call at a time.                                                 *)

\* One turn of the loop of spawn_auto_reindex after its sleep:
\* ingest_directory(&project_root), and the outcome logged.
AutoReindex ==
    /\ \E r \in { ingest_directory(Db, ProjectId, fs) } :
        /\ r.db.uuid <= MaxUuid + 1
        /\ nodes' = r.db.nodes /\ edges' = r.db.edges /\ fts_content' = r.db.fts
        /\ file_hashes' = r.db.hashes /\ uuid_next' = r.db.uuid
        /\ last_call' = [kind |-> "reindex", ok |-> r.ok,
                          changed |-> r.db.nodes # nodes]
    /\ UNCHANGED <<fs, last_run, quiet_runs, search_cache, fetch_cache, now, pc, calls,
                   dedup_vars, server_vars, fact_vars>>

NextReindex ==
    \/ \E q \in CacheQueries : calls < MaxSearches /\ SearchBegin("t1", q, 1)
    \/ SearchFinish("t1")
    \/ pc["t1"] = Idle /\ ToolIndex
    \/ AutoReindex
    \/ (\E c \in {SearchText, ServerText} : WriteFile(PathA, c))
          /\ UNCHANGED <<dedup_vars, server_vars, search_vars, fact_vars>>
    \/ RemoveFile(PathA) /\ UNCHANGED <<dedup_vars, server_vars, search_vars, fact_vars>>

SpecReindex == InitSearch /\ [][NextReindex]_vars

\* C34: a search answered from the result cache returns a response that
\* search computes on the store as it is, never one of the store as it was
\* before an ingest_directory run that changed it.
C34_CacheCoherence ==
    [][(calls' = calls + 1 /\ last_call'.kind = "search" /\ last_call'.hit)
          => last_call'.response \in
                { o.response : o \in SearchMiss(Db, ProjectId, last_call'.query,
                                                last_call'.top_k) }]_vars


----------------------------------------------------------------------------
(* Searches on a store that does not change: the project's file was        *)
(* indexed before the first search and no index verb runs.                 *)

\* The store after ingest_directory on the directory of InitFs.
IndexedDb == ingest_directory(DbOf({}, {}, {}, {}, 1), ProjectId, InitFs).db

InitIndexed ==
    /\ fs = InitFs
    /\ nodes = IndexedDb.nodes /\ edges = IndexedDb.edges /\ fts_content = IndexedDb.fts
    /\ file_hashes = IndexedDb.hashes /\ uuid_next = IndexedDb.uuid
    /\ last_run = NoRun /\ quiet_runs = 0
    /\ IdleDedup /\ IdleSearch /\ IdleServer /\ IdleFacts

NextIndexed ==
    \/ \E q \in Queries, k \in 1..MaxTopK : calls < MaxSearches /\ SearchBegin("t1", q, k)
    \/ SearchFinish("t1")

SpecIndexed == InitIndexed /\ [][NextIndexed]_vars

\* C35: on a store that does not change, a search answered from the cache
\* returns a response the same search computes with the cache empty, also
\* when the entry was stored by a query that differs in letter case or in
\* leading or trailing whitespace.
C35_CacheHistoryIndependence ==
    [][(calls' = calls + 1 /\ last_call'.kind = "search" /\ last_call'.hit)
          => last_call'.response \in
                { o.response : o \in SearchMiss(Db, ProjectId, last_call'.query,
                                                last_call'.top_k) }]_vars


----------------------------------------------------------------------------
(* Claims about the index after any history of ingests (SpecIngest,        *)
(* SpecChunks).                                                            *)

\* Some node of the project describes chunk c of the file at path.
HasChunkNode(ns, path, c) ==
    \E n \in ns : /\ n.project_id = ProjectId /\ n.file_path = Some(path)
                  /\ n.node_type = NodeType_as_str(c.node_type) /\ n.name = c.name

\* C36: when ingest_directory returns Ok with errors = 0, every crawled
\* file has a file node with its path and every chunk of its content has a
\* chunk node, whatever was ingested, removed and swept before.
C36_IndexCompleteness ==
    [][(RunStep /\ last_run'.ok /\ last_run'.report.errors = 0)
          => \A p \in last_run'.crawled :
                /\ HasFileNode(nodes', p)
                /\ ReadOk(fs, p) =>
                     \A i \in 1..Len(chunk_file(p, ReadLines(fs, p))) :
                        HasChunkNode(nodes', p, chunk_file(p, ReadLines(fs, p))[i])]_vars


\* The file nodes ingest_file stored for a path: file-typed and named by the
\* path (the whole-file chunk of the fallback chunker is file-typed too, but
\* is named by the file name and is counted with the chunks).
FileNodes(ns, path) ==
    { n \in ns : /\ n.project_id = ProjectId /\ n.node_type = "file"
                 /\ n.file_path = Some(path) /\ n.name = path }

\* C37: after a successful ingest_directory call the store holds at most
\* one file node for each crawled path, and every other node of that path
\* is the target of a contains edge from that file node.
C37_OneFileNodePerPath ==
    [][(RunStep /\ last_run'.ok)
          => \A p \in last_run'.crawled :
                /\ Cardinality(FileNodes(nodes', p)) <= 1
                /\ \A n \in nodes' :
                      (n.project_id = ProjectId /\ n.file_path = Some(p) /\ n \notin FileNodes(nodes', p))
                         => \A f \in FileNodes(nodes', p) :
                               \E e \in edges' : /\ e.source_id = f.id /\ e.target_id = n.id
                                                 /\ e.edge_type = EdgeType_as_str("Contains")]_vars


\* The node describes chunk c: its name and its line range.
DescribesChunk(n, c) ==
    /\ n.name = c.name
    /\ n.start_line = Some(c.start_line)
    /\ n.end_line = Some(c.end_line)

\* The nodes of a path that are not its file nodes.
ChunkNodes(ns, path) ==
    { n \in ns : n.project_id = ProjectId /\ n.file_path = Some(path) } \ FileNodes(ns, path)

\* C38: after ingest_directory ingested a file successfully, every chunk
\* node of its path has the name and the line range of a chunk of the
\* file's current content; no node of a chunk of an earlier version remains.
C38_ChunkNodesMatchFile ==
    [][(RunStep /\ last_run'.ok)
          => \A i \in 1..Len(last_run'.results) :
                last_run'.results[i].ok
                   => \A n \in ChunkNodes(nodes', last_run'.results[i].path) :
                         \E j \in 1..Len(chunk_file(n.file_path[1], ReadLines(fs, n.file_path[1]))) :
                            DescribesChunk(n, chunk_file(n.file_path[1], ReadLines(fs, n.file_path[1]))[j])]_vars


\* The crawled paths the latest run handed to ingest_file.
IngestedPaths(run) == { run.results[i].path : i \in 1..Len(run.results) }

\* C39: every report returned by ingest_directory has
\* total_files = indexed + skipped + errors with total_files the number of
\* crawled files, and each crawled file is counted in exactly one of the
\* three: skipped, or ingested once and then indexed or failed.
C39_ReportPartition ==
    [][(RunStep /\ last_run'.ok)
          => \E run \in {last_run'} :
                /\ run.report.total_files
                      = run.report.indexed + run.report.skipped + run.report.errors
                /\ run.report.total_files = Cardinality(run.crawled)
                /\ IngestedPaths(run) \subseteq run.crawled
                /\ Cardinality(IngestedPaths(run)) = Len(run.results)
                /\ run.report.skipped = Cardinality(run.crawled \ IngestedPaths(run))
                /\ run.report.indexed
                      = Cardinality({ i \in 1..Len(run.results) : run.results[i].ok })
                /\ run.report.errors
                      = Cardinality({ i \in 1..Len(run.results) : ~run.results[i].ok })]_vars

\* A returned report that counts one skipped and one failed file.
C39_Witness ==
    /\ last_run.ran /\ last_run.ok
    /\ last_run.report.total_files = 2
    /\ last_run.report.skipped = 1
    /\ last_run.report.errors = 1

\* A returned report that counts one indexed and one failed file.
C39_WitnessIndexed ==
    /\ last_run.ran /\ last_run.ok
    /\ last_run.report.indexed = 1
    /\ last_run.report.errors = 1

=============================================================================
